---- MODULE Spec2Model ----
(***************************************************************************)
(* Model of the prioritized parallel search executor                       *)
(* (backend/src/util/parallel_search.py) and of the iterative research     *)
(* engine on top of it (backend/src/util/agentic_search_engine.py).        *)
(*                                                                         *)
(* Time is counted in whole seconds.  An action is one run of a coroutine  *)
(* from one suspension point (an awaited adapter or language-model call)   *)
(* to the next: asyncio runs everything in between without interruption.   *)
(***************************************************************************)
EXTENDS Integers, Sequences, FiniteSets, TLC

VARIABLES
    tool_configs,        \* ParallelSearchExecutor._tool_configs (registration order)
    tool_stats,          \* the statistics fields of each SearchToolConfig
    last_circuit_break,  \* ParallelSearchExecutor._last_circuit_break
    semaphore,           \* free permits of ParallelSearchExecutor._semaphore
    now,                 \* time.time()
    pc,                  \* where each execute_prioritized_search call stands
    hp_idx,              \* position of the urgent loop in high_priority_configs
    calls,               \* per call and registration: the _execute_search_with_timeout task
    all_results,         \* local all_results
    successful_tools,    \* local successful_tools
    critical_succeeded,  \* local critical_succeeded
    exec_start,          \* local start_time of execute_prioritized_search
    response,            \* the value execute_prioritized_search returned
    last_call_end,       \* adapter side: when the last attempted call of a tool ended
    attempts,            \* adapter side: the attempted calls of a tool that ended, those that
                         \* succeeded, and how the latest one ended
    max_iterations,      \* AgenticSearchEngine.max_iterations
    active_plans,        \* AgenticSearchEngine.active_plans; a plan's id is its position
    rpc,                 \* where each execute_research call stands
    r_plan,              \* local plan of execute_research (the plan's id)
    r_query,             \* parameter query of execute_research
    r_max_iterations,    \* the iteration cap the request of this call came with
    iteration,           \* local iteration
    r_step,              \* local first_step / next_step: the step whose search is awaited
    initial_plan,        \* local initial_plan
    analysis,            \* local analysis
    analysis_calls,      \* how many analysis calls of this execute_research call have ended
    r_response,          \* the value execute_research returned
    steps_appended,      \* how many steps this execute_research call has added to its plan
    lookup,              \* the last get_research_plan call: its plan_id and the value returned
    llm_sites,           \* the language-model calls this execute_research call has made, in order
    llm_input,           \* what the latest language-model call was given
    llm_answer           \* what the latest language-model call that ended has answered

execVars == <<tool_configs, tool_stats, last_circuit_break, semaphore, now, pc, hp_idx,
              calls, all_results, successful_tools, critical_succeeded, exec_start,
              response, last_call_end, attempts>>

researchVars == <<max_iterations, active_plans, rpc, r_plan, r_query, r_max_iterations, iteration, r_step,
                  initial_plan, analysis, analysis_calls, r_response, steps_appended, lookup,
                  llm_sites, llm_input, llm_answer>>

vars == <<execVars, researchVars>>

-----------------------------------------------------------------------------
(* Bounds of the model *)

StartTime == 100       \* the clock value at construction (time.time() is far above 60)
MaxTime == 104         \* the clock stops advancing here
MaxRequests == 1       \* Spec: no new search starts once a tool was attempted this often
MaxBreakerRequests == 3    \* SpecBreaker: the same
MaxBreakerTime == 120      \* SpecBreaker: seconds the clock advances
BreakerTick == 30          \* SpecBreaker: seconds between two readings of the clock
MaxThresholdRequests == 11 \* SpecThreshold: attempts per tool
MaxIterations == 3         \* SpecResearch: largest max_iterations of an engine or a request
MaxPlans == 1              \* SpecResearch: plans created
MaxConcurrent == 3         \* SpecSemaphore: calls running at once
SourcesIterations == 2     \* SpecSources: max_iterations of the engine and of every request
MaxTokens == 5             \* SpecParser: tokens of an unfenced answer
MaxFailures == 3           \* SpecRecovery: calls the adapter fails
MaxRecoveryRequests == 5   \* SpecRecovery: calls the adapter is awaited for
PermitAdapters == 11       \* SpecPermits: deferred adapters registered
MaxUnreliable == 2         \* SpecPermits: adapters that may raise or hang
MaxPermitTime == 30        \* SpecPermits: seconds the clock runs
MaxProbing == 2            \* SpecProbing: calls running at once
MaxProbingRequests == 2    \* SpecProbing: calls one adapter may record before the requests stop
OverlapPlans == 2          \* SpecOverlap: plans the engine may hold
OverlapIterations == 2     \* SpecOverlap: largest max_iterations of a request

-----------------------------------------------------------------------------
(* Program constants *)

CRITICAL == 0
HIGH == 1
MEDIUM == 2
LOW == 3
FALLBACK == 4

circuit_breaker_reset_time == 60
SemaphorePermits == 10
EarlyExitResults == 5
MaxSynthesisResults == 20
max_suggestions == 5

\* 0.3 as a fraction
circuit_breaker_threshold == [num |-> 3, den |-> 10]

Execs == {"e1"}

-----------------------------------------------------------------------------
(* Fractions: success_rate is kept as a reduced fraction *)

RECURSIVE GCD(_, _)
GCD(a, b) == IF b = 0 THEN a ELSE GCD(b, a % b)

Frac(n, d) == LET g == GCD(n, d) IN [num |-> n \div g, den |-> d \div g]

FracLT(x, y) == x.num * y.den < y.num * x.den
FracGT(x, y) == x.num * y.den > y.num * x.den

Range(s) == {s[i] : i \in DOMAIN s}

-----------------------------------------------------------------------------
(* SearchToolConfig *)

Config(p, to, mr) == [priority |-> p, timeout |-> to, max_results |-> mr, enabled |-> TRUE]

InitialStats == [avg_response_time |-> 0, success_rate |-> Frac(1, 1),
                 last_success |-> TRUE, request_count |-> 0]

\* an update that writes back the count it found when another call had
\* already been counted
update_stats_LostIncrement(st, response_time, success) ==
    LET n == IF st.request_count = 0 THEN 1 ELSE st.request_count
    IN [avg_response_time |-> response_time,
        success_rate |-> Frac(st.success_rate.num * (n - 1)
                                  + (IF success THEN 1 ELSE 0) * st.success_rate.den,
                              st.success_rate.den * n),
        last_success |-> success, request_count |-> n]

\* statistics that take successful calls only
update_stats_SuccessOnly(st, response_time, success) ==
    IF success
    THEN [avg_response_time |-> response_time,
          success_rate |-> Frac(st.success_rate.num * st.request_count + st.success_rate.den,
                                st.success_rate.den * (st.request_count + 1)),
          last_success |-> TRUE, request_count |-> st.request_count + 1]
    ELSE st

\* SearchToolConfig.update_stats; response times are in milliseconds, the
\* moving average is kept in fixed point (rounded down to a millisecond).
update_stats(st, response_time, success) ==
    LET n == st.request_count + 1
        avg == IF n > 1
               THEN (7 * st.avg_response_time + 3 * response_time) \div 10
               ELSE response_time
        rate == Frac(st.success_rate.num * (n - 1) + (IF success THEN 1 ELSE 0) * st.success_rate.den,
                     st.success_rate.den * n)
    IN [avg_response_time |-> avg, success_rate |-> rate,
        last_success |-> success, request_count |-> n]

Tools == DOMAIN tool_configs

-----------------------------------------------------------------------------
(* Circuit breaker *)

\* a breaker that still holds at the very end of the cool-down window
IsCircuitBroken_Inclusive(t, sts, lcb, time) ==
    IF FracGT(sts[t].success_rate, circuit_breaker_threshold)
    THEN FALSE
    ELSE LET last_break_time == IF t \in DOMAIN lcb THEN lcb[t] ELSE 0
         IN time - last_break_time <= circuit_breaker_reset_time

\* a breaker that stays open until the success rate is above the threshold
IsCircuitBroken_UntilRateRecovers(t, sts, lcb, time) ==
    ~FracGT(sts[t].success_rate, circuit_breaker_threshold) /\ t \in DOMAIN lcb

\* ParallelSearchExecutor._is_circuit_broken
IsCircuitBroken(t, sts, lcb, time) ==
    IF FracGT(sts[t].success_rate, circuit_breaker_threshold)
    THEN FALSE
    ELSE LET last_break_time == IF t \in DOMAIN lcb THEN lcb[t] ELSE 0
         IN time - last_break_time < circuit_breaker_reset_time

\* a trip that keeps the time of an earlier trip
break_circuit_KeepEarlier(t, lcb, time) ==
    IF t \in DOMAIN lcb THEN lcb ELSE [u \in DOMAIN lcb \cup {t} |-> IF u = t THEN time ELSE lcb[u]]

\* ParallelSearchExecutor._break_circuit
break_circuit(t, lcb, time) == [u \in DOMAIN lcb \cup {t} |-> IF u = t THEN time ELSE lcb[u]]

\* the guard of the finally block of _execute_search_with_timeout
MustBreak(st, success) == ~success /\ FracLT(st.success_rate, circuit_breaker_threshold)

\* a test that looks at the enabled flag only
Skipped_DisabledOnly(t, sts, lcb, time) == ~tool_configs[t].enabled

\* the first test of _execute_search_with_timeout
Skipped(t, sts, lcb, time) == ~tool_configs[t].enabled \/ IsCircuitBroken(t, sts, lcb, time)

\* a handler that lets the TimeoutError of wait_for through
Catches_ExceptionOnly(kind) == kind = "exception"

\* only the timeout is caught
Catches_TimeoutOnly(kind) == kind = "timeout"

\* the except clauses of _execute_search_with_timeout: asyncio.TimeoutError and Exception
Catches(kind) == kind \in {"timeout", "exception"}

-----------------------------------------------------------------------------
(* Ordering of the registrations *)

Indices == [i \in 1..Len(tool_configs) |-> i]

OfPriority(p) == SelectSeq(Indices, LAMBDA i : tool_configs[i].priority = p)

RECURSIVE SortedFrom(_)
SortedFrom(p) == IF p > FALLBACK THEN <<>> ELSE OfPriority(p) \o SortedFrom(p + 1)

\* sorted(self._tool_configs, key=priority.value): a stable sort
\* the adapters in registration order, never sorted
sorted_configs_Unsorted == Indices

sorted_configs == SortedFrom(CRITICAL)

\* only the CRITICAL tier is served one after the other
IsUrgent_CriticalOnly(t) == tool_configs[t].priority = CRITICAL

IsUrgent(t) == tool_configs[t].priority \in {CRITICAL, HIGH}

high_priority_configs == SelectSeq(sorted_configs, IsUrgent)

NotUrgent(t) == ~IsUrgent(t)

all_lower_priority_configs == SelectSeq(sorted_configs, NotUrgent)

\* an early exit that needs more than 5 items
EarlyExit_OffByOne(cs, ar) == cs /\ Len(ar) > EarlyExitResults

\* the early exit test
EarlyExit(cs, ar) == cs /\ Len(ar) >= EarlyExitResults

lower_priority_configs(cs, ar) == IF EarlyExit(cs, ar) THEN <<>> ELSE all_lower_priority_configs

-----------------------------------------------------------------------------
(* Merge *)

\* an item whose dictionary has no "url" key
Missing == "<missing>"

\* result.get("url", "")
UrlOf(item) == IF item.url = Missing THEN "" ELSE item.url

RECURSIVE DedupFrom(_, _, _, _)
DedupFrom(ar, i, seen_urls, out) ==
    IF i > Len(ar) THEN out
    ELSE LET url == UrlOf(ar[i]) IN
         IF url # "" /\ url \notin seen_urls
         THEN DedupFrom(ar, i + 1, seen_urls \cup {url}, Append(out, ar[i]))
         ELSE IF url = ""
              THEN DedupFrom(ar, i + 1, seen_urls, Append(out, ar[i]))
              ELSE DedupFrom(ar, i + 1, seen_urls, out)

RECURSIVE DedupAnyUrl(_, _, _, _)
DedupAnyUrl(ar, i, seen_urls, out) ==
    IF i > Len(ar) THEN out
    ELSE IF UrlOf(ar[i]) \notin seen_urls
         THEN DedupAnyUrl(ar, i + 1, seen_urls \cup {UrlOf(ar[i])}, Append(out, ar[i]))
         ELSE DedupAnyUrl(ar, i + 1, seen_urls, out)

\* a deduplication that treats the empty URL as a URL
Deduplicate_EmptyUrlToo(ar) == DedupAnyUrl(ar, 1, {}, <<>>)

\* the deduplication loop of execute_prioritized_search
Deduplicate(ar) == DedupFrom(ar, 1, {}, <<>>)

-----------------------------------------------------------------------------
(* One _execute_search_with_timeout task *)

NoCall == [state |-> "none", start_time |-> 0, entered |-> 0, kind |-> "none",
           results |-> <<>>, success |-> FALSE]

\* the task returned ([], False) at once: disabled or circuit open
SkippedCall(time) == [NoCall EXCEPT !.state = "skipped", !.start_time = time]

\* a task that never waits for the semaphore
StartedCall_AlwaysGranted(time, granted) ==
    [NoCall EXCEPT !.state = "in_flight", !.start_time = time, !.entered = time]

\* start_time is taken, then the semaphore is entered (at once when a permit
\* is granted, else the task waits for one) and the adapter awaited
StartedCall(time, granted) ==
    [NoCall EXCEPT !.state = IF granted THEN "in_flight" ELSE "waiting",
                   !.start_time = time,
                   !.entered = IF granted THEN time ELSE 0]

\* a waiting task got its permit: wait_for starts counting now
EnteredCall(c, time) == [c EXCEPT !.state = "in_flight", !.entered = time]

\* what the task returns: (results, success)
FinishedCall(c, kind, results) ==
    [c EXCEPT !.state = "done", !.kind = kind,
              !.results = IF kind = "return" THEN results ELSE <<>>,
              !.success = (kind = "return")]

\* items as an adapter returns them: it sets the source tag itself
Item(url, title) == [url |-> url, title |-> title]

Tagged(t, res) == [i \in DOMAIN res |-> [url |-> res[i].url, title |-> res[i].title, source |-> t]]

PosIn(seq, x) == CHOOSE k \in DOMAIN seq : seq[k] = x

\* the adapter's own record of the calls it was awaited for
NoAttempt == [n |-> 0, s |-> 0, last |-> TRUE]

Attempted(rec, success) ==
    [n |-> rec.n + 1, s |-> rec.s + (IF success THEN 1 ELSE 0), last |-> success]

\* the finally block of _execute_search_with_timeout: statistics of tool t after a call
StatsAfter(t, started, kind) ==
    [tool_stats EXCEPT ![t] = update_stats(@, (now - started) * 1000, kind = "return")]

BreakerAfter(t, sts, kind) ==
    IF MustBreak(sts[t], kind = "return")
    THEN break_circuit(t, last_circuit_break, now)
    ELSE last_circuit_break

\* a permit that stays taken when wait_for raised TimeoutError
Released_NotOnTimeout(sem, kind) == IF kind = "timeout" THEN sem ELSE sem + 1

\* leaving "async with self._semaphore": the permit is given back whether the
\* block was left by its end or by an exception
Released(sem, kind) == sem + 1

\* wait_for: the adapter answers before its timeout, or the timeout fires at it;
\* started is the time the semaphore was entered
OutcomeEnabled(t, started, kind) ==
    IF kind = "timeout"
    THEN now - started >= tool_configs[t].timeout
    ELSE now - started < tool_configs[t].timeout

-----------------------------------------------------------------------------
(* execute_prioritized_search *)

EmptyResponse == [results |-> <<>>, sources |-> <<>>, stats |-> <<>>]

\* the statistics and the returned dictionary
Response(ar, st, sts, t0) ==
    LET deduplicated_results == Deduplicate(ar)
    IN [results |-> deduplicated_results,
        sources |-> st,
        stats |-> [execution_time |-> now - t0,
                   successful_tools |-> st,
                   total_results_before_dedup |-> Len(ar),
                   total_results_after_dedup |-> Len(deduplicated_results),
                   tool_stats |-> [t \in Tools |->
                       [priority |-> tool_configs[t].priority,
                        avg_response_time |-> sts[t].avg_response_time,
                        success_rate |-> sts[t].success_rate,
                        request_count |-> sts[t].request_count]]]]

\* a gather that gives up at the first failed task
RECURSIVE Gathered_StopAtFailure(_, _, _, _)
Gathered_StopAtFailure(lower, k, cl, acc) ==
    IF k > Len(lower) THEN acc
    ELSE LET c == cl[lower[k]] IN
         IF c.success
         THEN Gathered_StopAtFailure(lower, k + 1, cl,
                  [ar |-> acc.ar \o c.results, st |-> Append(acc.st, lower[k])])
         ELSE acc

\* a merge that puts the items of each later task in front
RECURSIVE Gathered_LaterFirst(_, _, _, _)
Gathered_LaterFirst(lower, k, cl, acc) ==
    IF k > Len(lower) THEN acc
    ELSE LET c == cl[lower[k]] IN
         Gathered_LaterFirst(lower, k + 1, cl,
                  IF c.success
                  THEN [ar |-> c.results \o acc.ar, st |-> <<lower[k]>> \o acc.st]
                  ELSE acc)

\* the loop over the gathered results_list, in the order of lower_priority_configs:
\* the items and the names of the tasks that succeeded, appended to acc
RECURSIVE GatheredResults(_, _, _)
GatheredResults(lower, k, cl) ==
    IF k > Len(lower) THEN <<>>
    ELSE (IF cl[lower[k]].success THEN cl[lower[k]].results ELSE <<>>)
         \o GatheredResults(lower, k + 1, cl)

RECURSIVE GatheredTools(_, _, _)
GatheredTools(lower, k, cl) ==
    IF k > Len(lower) THEN <<>>
    ELSE (IF cl[lower[k]].success THEN << lower[k] >> ELSE <<>>)
         \o GatheredTools(lower, k + 1, cl)

Gathered(lower, k, cl, acc) ==
    [ar |-> acc.ar \o GatheredResults(lower, k, cl),
     st |-> acc.st \o GatheredTools(lower, k, cl)]

\* Semaphore.acquire of a task that arrives while tasks of other calls wait for
\* a permit: whether it may take a free permit ahead of them depends on the
\* interpreter's asyncio version, so both are possible.
Barging(e) ==
    IF \E x \in DOMAIN pc \ {e} : \E t \in Tools : calls[x][t].state = "waiting"
    THEN BOOLEAN ELSE {TRUE}

\* some adapter call is awaited
InFlightNow == \E e \in DOMAIN pc : \E t \in Tools : calls[e][t].state = "in_flight"

\* The body of execute_prioritized_search from position i of the urgent loop up
\* to its next suspension: the next adapter call that is really awaited, or the
\* return.  ar, st, cs are the locals all_results, successful_tools and
\* critical_succeeded; sts, lcb, sem the executor's state; cl the tasks so far.
Proceed(e, i, ar, st, cs, sts, lcb, sem, cl, t0) ==
    \E barging \in Barging(e) :
    LET hp == high_priority_configs
        cand == {k \in i..Len(hp) : ~Skipped(hp[k], sts, lcb, now)}
        j == IF cand = {} THEN 0 ELSE CHOOSE k \in cand : \A m \in cand : k <= m
        last == IF j = 0 THEN Len(hp) ELSE j - 1
        cl1 == [t \in Tools |-> IF \E k \in i..last : hp[k] = t THEN SkippedCall(now) ELSE cl[t]]
        lower == lower_priority_configs(cs, ar)
        attempted == SelectSeq(lower, LAMBDA t : ~Skipped(t, sts, lcb, now))
        free == IF barging THEN sem ELSE 0
        cl2 == [t \in Tools |->
                  IF t \in Range(attempted) THEN StartedCall(now, PosIn(attempted, t) <= free)
                  ELSE IF t \in Range(lower) THEN SkippedCall(now)
                  ELSE cl1[t]]
        granted == IF Len(attempted) <= free THEN Len(attempted) ELSE free
    IN /\ all_results' = [all_results EXCEPT ![e] = ar]
       /\ successful_tools' = [successful_tools EXCEPT ![e] = st]
       /\ critical_succeeded' = [critical_succeeded EXCEPT ![e] = cs]
       /\ IF j # 0
          THEN /\ pc' = [pc EXCEPT ![e] = "urgent"]
               /\ hp_idx' = [hp_idx EXCEPT ![e] = j]
               /\ calls' = [calls EXCEPT ![e] = [cl1 EXCEPT ![hp[j]] = StartedCall(now, free > 0)]]
               /\ semaphore' = IF free > 0 THEN sem - 1 ELSE sem
               /\ response' = response
          ELSE IF Len(attempted) > 0
          THEN /\ pc' = [pc EXCEPT ![e] = "deferred"]
               /\ hp_idx' = [hp_idx EXCEPT ![e] = Len(hp) + 1]
               /\ calls' = [calls EXCEPT ![e] = cl2]
               /\ semaphore' = sem - granted
               /\ response' = response
          ELSE /\ pc' = [pc EXCEPT ![e] = "returned"]
               /\ hp_idx' = [hp_idx EXCEPT ![e] = Len(hp) + 1]
               /\ calls' = [calls EXCEPT ![e] = cl2]
               /\ semaphore' = sem
               /\ response' = [response EXCEPT ![e] = Response(ar, st, sts, t0)]

\* An exception that no except clause catches leaves execute_prioritized_search.
Propagate(e, sem, cl) ==
    /\ pc' = [pc EXCEPT ![e] = "raised"]
    /\ calls' = [calls EXCEPT ![e] = cl]
    /\ semaphore' = sem
    /\ UNCHANGED <<hp_idx, all_results, successful_tools, critical_succeeded, response>>

\* A caller invokes execute_prioritized_search(query).
execute_prioritized_search(e) ==
    /\ pc[e] \in {"idle", "returned"}
    /\ exec_start' = [exec_start EXCEPT ![e] = now]
    /\ IF Len(tool_configs) = 0
       THEN /\ pc' = [pc EXCEPT ![e] = "returned"]
            /\ response' = [response EXCEPT ![e] = EmptyResponse]
            /\ UNCHANGED <<hp_idx, calls, all_results, successful_tools,
                           critical_succeeded, semaphore>>
       ELSE Proceed(e, 1, <<>>, <<>>, FALSE, tool_stats, last_circuit_break, semaphore,
                    [t \in Tools |-> NoCall], now)
    /\ UNCHANGED <<tool_configs, tool_stats, last_circuit_break, now, last_call_end, attempts>>

\* The awaited call of the urgent loop ends: the adapter returned res, raised,
\* or its timeout fired.  The loop goes on to the next urgent adapter.
UrgentCallEnds(e, kind, res) ==
    /\ pc[e] = "urgent"
    /\ LET t == high_priority_configs[hp_idx[e]]
           c == calls[e][t]
           sts == StatsAfter(t, c.start_time, kind)
           lcb == BreakerAfter(t, sts, kind)
           done == FinishedCall(c, kind, Tagged(t, res))
           cl == [calls[e] EXCEPT ![t] = done]
       IN /\ c.state = "in_flight"
          /\ OutcomeEnabled(t, c.entered, kind)
          /\ tool_stats' = sts
          /\ last_circuit_break' = lcb
          /\ last_call_end' = [last_call_end EXCEPT ![t] = now]
          /\ attempts' = [attempts EXCEPT ![t] = Attempted(@, kind = "return")]
          /\ IF kind = "return" \/ Catches(kind)
             THEN Proceed(e, hp_idx[e] + 1,
                          IF done.success THEN all_results[e] \o done.results ELSE all_results[e],
                          IF done.success THEN Append(successful_tools[e], t) ELSE successful_tools[e],
                          critical_succeeded[e]
                              \/ (done.success /\ tool_configs[t].priority = CRITICAL),
                          sts, lcb, Released(semaphore, kind), cl, exec_start[e])
             ELSE Propagate(e, Released(semaphore, kind), cl)
    /\ UNCHANGED <<tool_configs, now, exec_start>>

\* One task of the gather ends.  When it was the last one, the results are
\* processed in task order, merged, and the call returns.
DeferredCallEnds(e, t, kind, res) ==
    /\ pc[e] = "deferred"
    /\ LET c == calls[e][t]
           sts == StatsAfter(t, c.start_time, kind)
           lcb == BreakerAfter(t, sts, kind)
           cl == [calls[e] EXCEPT ![t] = FinishedCall(c, kind, Tagged(t, res))]
           lower == lower_priority_configs(critical_succeeded[e], all_results[e])
           g == Gathered(lower, 1, cl, [ar |-> all_results[e], st |-> successful_tools[e]])
       IN /\ c.state = "in_flight"
          /\ OutcomeEnabled(t, c.entered, kind)
          /\ tool_stats' = sts
          /\ last_circuit_break' = lcb
          /\ last_call_end' = [last_call_end EXCEPT ![t] = now]
          /\ attempts' = [attempts EXCEPT ![t] = Attempted(@, kind = "return")]
          /\ IF ~(kind = "return" \/ Catches(kind))
             THEN Propagate(e, Released(semaphore, kind), cl)
             ELSE /\ calls' = [calls EXCEPT ![e] = cl]
                  /\ semaphore' = Released(semaphore, kind)
                  /\ UNCHANGED <<hp_idx, critical_succeeded>>
                  /\ IF \A u \in Tools : cl[u].state \notin {"in_flight", "waiting"}
                     THEN /\ pc' = [pc EXCEPT ![e] = "returned"]
                          /\ all_results' = [all_results EXCEPT ![e] = g.ar]
                          /\ successful_tools' = [successful_tools EXCEPT ![e] = g.st]
                          /\ response' = [response EXCEPT ![e] = Response(g.ar, g.st, sts, exec_start[e])]
                     ELSE UNCHANGED <<pc, all_results, successful_tools, response>>
    /\ UNCHANGED <<tool_configs, now, exec_start>>

\* A task that waited at "async with self._semaphore" gets a permit and its
\* adapter call starts.
SemaphoreEntered(e, t) ==
    /\ calls[e][t].state = "waiting"
    /\ semaphore > 0
    /\ semaphore' = semaphore - 1
    /\ calls' = [calls EXCEPT ![e][t] = EnteredCall(@, now)]
    /\ UNCHANGED <<tool_configs, tool_stats, last_circuit_break, now, pc, hp_idx,
                   all_results, successful_tools, critical_succeeded, exec_start,
                   response, last_call_end, attempts>>

\* Time passes; the timeout of a call in flight fires no later than it is due.
Tick(d) ==
    /\ \A e \in DOMAIN pc : \A t \in Tools :
          calls[e][t].state = "in_flight"
              => now + d <= calls[e][t].entered + tool_configs[t].timeout
    /\ now' = now + d
    /\ UNCHANGED <<tool_configs, tool_stats, last_circuit_break, semaphore, pc, hp_idx,
                   calls, all_results, successful_tools, critical_succeeded, exec_start,
                   response, last_call_end, attempts>>

-----------------------------------------------------------------------------
(* ResearchPlan and AgenticSearchEngine (agentic_search_engine.py).  A plan  *)
(* is a record, a dictionary decoded from the language model's JSON is a    *)
(* record whose DOMAIN is the dictionary's keys.                             *)

Researches == {"r1"}

\* AgenticSearchEngine.search_executor: the executor call that _execute_search awaits
ExecOf(r) == IF r = "r1" THEN "e1" ELSE "e2"

\* plan_id = None
NoPlanId == 0

NoDict == [none |-> TRUE]
NoStep == [query |-> "", reasoning |-> ""]
NoResponse == [status |-> "none"]

\* get_research_plan returns None; no get_research_plan call was made yet
None == [none |-> TRUE]
NoLookup == [plan_id |-> NoPlanId, value |-> None]

ResearchPlan(original_query) ==
    [original_query |-> original_query, steps |-> <<>>, synthesis |-> "",
     status |-> "initiated", planned_queries |-> <<>>]

\* every source with a URL is kept, seen before or not
RECURSIVE UniqueSources_KeepAll(_, _, _, _)
UniqueSources_KeepAll(sources, i, seen_urls, all_sources) ==
    IF i > Len(sources) THEN all_sources
    ELSE IF sources[i].url # ""
         THEN UniqueSources_KeepAll(sources, i + 1, seen_urls \cup {sources[i].url},
                                    Append(all_sources, sources[i]))
         ELSE UniqueSources_KeepAll(sources, i + 1, seen_urls, all_sources)

\* ResearchPlan.get_all_sources
RECURSIVE UniqueSources(_, _, _, _)
UniqueSources(sources, i, seen_urls, all_sources) ==
    IF i > Len(sources) THEN all_sources
    ELSE IF sources[i].url # "" /\ sources[i].url \notin seen_urls
         THEN UniqueSources(sources, i + 1, seen_urls \cup {sources[i].url},
                            Append(all_sources, sources[i]))
         ELSE UniqueSources(sources, i + 1, seen_urls, all_sources)

RECURSIVE StepSources(_, _)
StepSources(steps, i) ==
    IF i > Len(steps) THEN <<>> ELSE steps[i].sources \o StepSources(steps, i + 1)

get_all_sources(plan) == UniqueSources(StepSources(plan.steps, 1), 1, {}, <<>>)

\* _execute_search: the sources are the results that have a url and a title
HasUrlAndTitle(item) == item.url # Missing

SourcesOf(results) ==
    LET kept == SelectSeq(results, HasUrlAndTitle)
    IN [i \in DOMAIN kept |-> [title |-> kept[i].title, url |-> kept[i].url,
                               source |-> kept[i].source, isRelevant |-> TRUE]]

\* What a language-model call comes to: the call raises, its text is not
\* JSON, or the text decodes to value.
Raise == [kind |-> "raise"]
Text == [kind |-> "text"]
Json(value) == [kind |-> "json", value |-> value]

\* dict.get(key, default)
Get(d, key, default) == IF key \in DOMAIN d THEN d[key] ELSE default

\* query_info["query"] and query_info["reasoning"] raise KeyError on a missing key
HasQueryAndReasoning(info) == {"query", "reasoning"} \subseteq DOMAIN info

\* a fallback plan that rewrites the query
plan_initial_research_Rewritten(query, answer) ==
    IF answer.kind = "json" THEN answer.value
    ELSE [initial_queries |->
              << [query |-> query \o " overview", reasoning |-> "Direct search"] >>,
          research_approach |-> "Direct search for the original query"]

\* _plan_initial_research: json.loads, or the single-query plan on JSONDecodeError
plan_initial_research(query, answer) ==
    IF answer.kind = "json" THEN answer.value
    ELSE [initial_queries |->
              << [query |-> query, reasoning |-> "Direct search for the original query"] >>,
          research_approach |-> "Direct search for the original query"]

\* initial_plan and "initial_queries" in initial_plan and initial_plan["initial_queries"]
HasInitialQueries(ip) == "initial_queries" \in DOMAIN ip /\ ip.initial_queries # <<>>

\* plan.planned_queries after the first step
FirstPlanned(ip) == IF HasInitialQueries(ip) THEN Tail(ip.initial_queries) ELSE <<>>

(* The text of an analysis answer and its clean-up before json.loads        *)
(* (_analyze_results_and_plan_next).  A text is a sequence of tokens: the   *)
(* JSON punctuation, "k" for a key with its colon, "s" for a string or      *)
(* other scalar, "w" for a word of prose, and the two code fences (three    *)
(* backquotes, with or without the word json).                              *)

JsonTokens == {"{", "}", "[", "]", ",", "k", "s"}

Fences == {"<fence json>", "<fence>"}

Count(content, tok) == Cardinality({i \in DOMAIN content : content[i] = tok})

\* str.find: the first position of one of the tokens at or after from, else 0
Find(content, toks, from) ==
    LET hits == {i \in DOMAIN content : i >= from /\ content[i] \in toks}
    IN IF hits = {} THEN 0 ELSE CHOOSE i \in hits : \A j \in hits : i <= j

\* content.split(fence)[1].split(plain fence)[0]: what follows the first
\* fence, up to the next fence of either kind (the json fence begins with the
\* three backquotes of the plain one)
AfterFence(content, fence) ==
    LET i == Find(content, {fence}, 1)
        j == Find(content, Fences, i + 1)
    IN SubSeq(content, i + 1, IF j = 0 THEN Len(content) ELSE j - 1)

Unfenced(content) ==
    IF Count(content, "<fence json>") > 0 THEN AfterFence(content, "<fence json>")
    ELSE IF Count(content, "<fence>") > 0 THEN AfterFence(content, "<fence>")
    ELSE content

\* the two re.sub calls: a comma right before a closing brace, then one right
\* before a closing bracket, is dropped
DropCommaBefore(content, closer) ==
    LET keep == {i \in DOMAIN content :
                    ~(content[i] = "," /\ i < Len(content) /\ content[i + 1] = closer)}
        Nth(n) == CHOOSE i \in keep : Cardinality({j \in keep : j <= i}) = n
    IN [n \in 1..Cardinality(keep) |-> content[Nth(n)]]

Repeat(tok, n) == [i \in 1..n |-> tok]

\* closers are appended when there are more openers than closers, never removed
Closed(content, opener, closer) ==
    IF Count(content, opener) > Count(content, closer)
    THEN content \o Repeat(closer, Count(content, opener) - Count(content, closer))
    ELSE content

\* the content handed to json.loads
Cleaned(content) ==
    Closed(Closed(DropCommaBefore(DropCommaBefore(Unfenced(content), "}"), "]"),
                  "{", "}"),
           "[", "]")

\* json.loads as a recogniser: each operator takes the position where a
\* construct begins and gives the position after it, or 0 for a syntax error
RECURSIVE ParseValue(_, _)
RECURSIVE ParseElements(_, _)
RECURSIVE ParseMembers(_, _)

At(content, i) == IF i \in DOMAIN content THEN content[i] ELSE "<end>"

ParseValue(content, i) ==
    IF At(content, i) = "s" THEN i + 1
    ELSE IF At(content, i) = "["
    THEN IF At(content, i + 1) = "]" THEN i + 2 ELSE ParseElements(content, i + 1)
    ELSE IF At(content, i) = "{"
    THEN IF At(content, i + 1) = "}" THEN i + 2 ELSE ParseMembers(content, i + 1)
    ELSE 0

\* value ("," value)* "]"
ParseElements(content, i) ==
    LET after == ParseValue(content, i)
    IN IF after = 0 THEN 0
       ELSE IF At(content, after) = "]" THEN after + 1
       ELSE IF At(content, after) = "," THEN ParseElements(content, after + 1)
       ELSE 0

\* key value ("," key value)* "}"
ParseMembers(content, i) ==
    IF At(content, i) # "k" THEN 0
    ELSE LET after == ParseValue(content, i + 1)
         IN IF after = 0 THEN 0
            ELSE IF At(content, after) = "}" THEN after + 1
            ELSE IF At(content, after) = "," THEN ParseMembers(content, after + 1)
            ELSE 0

\* a recogniser that stops at the end of the first value and ignores the rest
Parses_Prefix(content) == ParseValue(content, 1) > 0

\* json.loads succeeds: one value and nothing after it
Parses(content) == ParseValue(content, 1) = Len(content) + 1

\* the answer as the rest of _analyze_results_and_plan_next sees it: the
\* decoded document, or a text on which json.loads raised JSONDecodeError
Decoded(text) ==
    IF Parses(Cleaned(text.tokens)) THEN Json([document |-> Cleaned(text.tokens)]) ELSE Text

-----------------------------------------------------------------------------

\* _analyze_results_and_plan_next: the decoded answer, or the fallback analysis
analyze_results_and_plan_next(plan, answer, cap) ==
    IF answer.kind = "json" THEN answer.value
    ELSE [analysis |-> "Unable to parse results properly. Continuing with default approach.",
          information_sufficient |-> Len(plan.steps) >= cap,
          next_queries |->
              << [query |-> plan.original_query \o " " \o ToString(Len(plan.steps) + 1)
                                \o "th perspective",
                  reasoning |-> "Exploring another angle on the topic"] >>]

\* a loop that never looks at the verdict of the analysis
InformationSufficient_Ignored(an) == FALSE

\* analysis.get("information_sufficient", False)
InformationSufficient(an) == Get(an, "information_sufficient", FALSE)

\* The choice of the next query: the plan after the changes to planned_queries,
\* the chosen entry, and whether reading the entry's keys succeeds.
NextQuery(plan, an, query) ==
    LET next_queries == Get(an, "next_queries", <<>>)
    IN IF next_queries = <<>>
       THEN IF plan.planned_queries # <<>>
            THEN [plan |-> [plan EXCEPT !.planned_queries = Tail(@)],
                  info |-> Head(plan.planned_queries),
                  ok |-> HasQueryAndReasoning(Head(plan.planned_queries))]
            ELSE [plan |-> plan,
                  info |-> [query |-> query \o " additional details",
                            reasoning |-> "Gathering more specific information"],
                  ok |-> TRUE]
       ELSE IF HasQueryAndReasoning(next_queries[1])
            THEN [plan |-> [plan EXCEPT !.planned_queries = Tail(next_queries)],
                  info |-> next_queries[1], ok |-> TRUE]
            ELSE [plan |-> plan, info |-> next_queries[1], ok |-> FALSE]

\* sequence[:n]
Take(seq, n) == IF Len(seq) <= n THEN seq ELSE SubSeq(seq, 1, n)

\* A line of the answer as the line-by-line extraction tells lines apart:
\* blank, a lone bracket or comma, a comment (// or #), short (at most 3
\* characters once quotes and the trailing comma are stripped), a preface
\* (starts with here, example, sure, based on), or a query; cleaned is the
\* stripped text.
Line(class, cleaned) == [class |-> class, cleaned |-> cleaned]

IsQueryLine(line) == line.class = "query"

\* the loop over the lines, stopped at max_suggestions
fallback_queries(lines) ==
    LET kept == SelectSeq(lines, IsQueryLine)
    IN Take([i \in DOMAIN kept |-> kept[i].cleaned], max_suggestions)

\* _generate_related_searches: the decoded array of strings; else the lines
\* extracted from the text, or [] when there is none; the generic suggestions
\* when the call raises
generate_related_searches(query, answer) ==
    IF answer.kind = "raise"
    THEN Take(<< "Explore deeper aspects of " \o query,
                 "Follow-up questions for " \o query \o " research",
                 "Related topics to " \o query \o " synthesis" >>, max_suggestions)
    ELSE IF answer.kind = "json"
    THEN Take(answer.value, max_suggestions)
    ELSE fallback_queries(answer.lines)

\* ResearchStep.to_dict: the counts of the results and sources, not the items
step_to_dict(step) ==
    [query |-> step.query, reasoning |-> step.reasoning,
     results_count |-> Len(step.results), sources_count |-> Len(step.sources)]

steps_to_dict(steps) == [i \in DOMAIN steps |-> step_to_dict(steps[i])]

\* ResearchPlan.to_dict (the two timestamps and final_answer, which nothing
\* reads or sets, are left out)
plan_to_dict(id, plan) ==
    [id |-> id, original_query |-> plan.original_query,
     steps |-> steps_to_dict(plan.steps), synthesis |-> plan.synthesis,
     status |-> plan.status, sources |-> get_all_sources(plan)]

\* a lookup that indexes the table without the membership test
get_research_plan_Unchecked(plans, plan_id) ==
    IF plan_id \in DOMAIN plans THEN plan_to_dict(plan_id, plans[plan_id])
    ELSE [raised |-> "KeyError"]

\* AgenticSearchEngine.get_research_plan
get_research_plan(plans, plan_id) ==
    IF plan_id \in DOMAIN plans THEN plan_to_dict(plan_id, plans[plan_id]) ELSE None

\* a response without the related searches
CompletedResponse_NoRelated(id, plan, related_searches, cap) ==
    [plan_id |-> id, original_query |-> plan.original_query,
     research_steps |-> steps_to_dict(plan.steps),
     synthesis |-> plan.synthesis, status |-> plan.status,
     iterations_completed |-> Len(plan.steps), max_iterations |-> cap,
     sources |-> get_all_sources(plan)]

CompletedResponse(id, plan, related_searches, cap) ==
    [plan_id |-> id, original_query |-> plan.original_query,
     research_steps |-> steps_to_dict(plan.steps),
     synthesis |-> plan.synthesis, status |-> plan.status,
     iterations_completed |-> Len(plan.steps), max_iterations |-> cap,
     sources |-> get_all_sources(plan), related_searches |-> related_searches]

\* an error response that forgets what was gathered
ErrorResponse_NoSteps(id, plan, cap) ==
    [plan_id |-> id, original_query |-> plan.original_query, research_steps |-> <<>>,
     synthesis |-> "An error occurred during the research process.", status |-> "error",
     error |-> "exception", iterations_completed |-> 0, max_iterations |-> cap,
     sources |-> <<>>, related_searches |-> <<>>]

ErrorResponse(id, plan, cap) ==
    [plan_id |-> id, original_query |-> plan.original_query,
     research_steps |-> steps_to_dict(plan.steps),
     synthesis |-> "An error occurred during the research process.", status |-> "error",
     error |-> "exception", iterations_completed |-> Len(plan.steps), max_iterations |-> cap,
     sources |-> get_all_sources(plan), related_searches |-> <<>>]

\* _synthesize_research: unique_sources, built from the first
\* MaxSynthesisResults results of all steps; a result without a url counts
\* under the url 'No URL'
SynthesisUrl(item) == IF item.url = Missing THEN "No URL" ELSE item.url

RECURSIVE StepResults(_, _)
StepResults(steps, i) ==
    IF i > Len(steps) THEN <<>> ELSE steps[i].results \o StepResults(steps, i + 1)

RECURSIVE UniqueIndexed_KeepAll(_, _, _, _)
UniqueIndexed_KeepAll(results, i, seen_urls, unique_sources) ==
    IF i > Len(results) \/ i > MaxSynthesisResults THEN unique_sources
    ELSE UniqueIndexed_KeepAll(results, i + 1, seen_urls,
                               Append(unique_sources,
                                      [index |-> Len(unique_sources) + 1,
                                       title |-> results[i].title,
                                       url |-> SynthesisUrl(results[i])]))

RECURSIVE UniqueIndexed(_, _, _, _)
UniqueIndexed(results, i, seen_urls, unique_sources) ==
    IF i > Len(results) \/ i > MaxSynthesisResults THEN unique_sources
    ELSE IF SynthesisUrl(results[i]) \in seen_urls
         THEN UniqueIndexed(results, i + 1, seen_urls, unique_sources)
         ELSE UniqueIndexed(results, i + 1, seen_urls \cup {SynthesisUrl(results[i])},
                            Append(unique_sources,
                                   [index |-> Len(unique_sources) + 1,
                                    title |-> results[i].title,
                                    url |-> SynthesisUrl(results[i])]))

unique_sources(plan) == UniqueIndexed(StepResults(plan.steps, 1), 1, {}, <<>>)

\* what the prompts of the four language-model calls are built from
PlanningInput(query) == [query |-> query]

AnalysisInput(plan) ==
    [original_query |-> plan.original_query, steps |-> Len(plan.steps),
     current_results |-> plan.steps[Len(plan.steps)].results]

SynthesisInput(plan) ==
    [original_query |-> plan.original_query, unique_sources |-> unique_sources(plan)]

\* related queries asked for from the query alone
RelatedInput_QueryOnly(query, synthesis) == [query |-> query, synthesis |-> ""]

RelatedInput(query, synthesis) == [query |-> query, synthesis |-> synthesis]

\* await self.llm.ainvoke(...): the call is under way
StartCall(r, sites, site, input) ==
    /\ llm_sites' = [llm_sites EXCEPT ![r] = Append(sites, site)]
    /\ llm_input' = [llm_input EXCEPT ![r] = input]

\* plan.status = "in_progress" at the head of the try block
Entered(plan) == [plan EXCEPT !.status = "in_progress"]

\* The head of the while loop: the next suspension is the analysis call, or
\* the synthesis call once iteration has reached max_iterations.
LoopHead(r, plans, id, it, cap, sites) ==
    /\ active_plans' = plans
    /\ iteration' = [iteration EXCEPT ![r] = it]
    /\ rpc' = [rpc EXCEPT ![r] = IF it < cap THEN "analyzing" ELSE "synthesizing"]
    /\ IF it < cap
       THEN StartCall(r, sites, "analysis", AnalysisInput(plans[id]))
       ELSE StartCall(r, sites, "synthesis", SynthesisInput(plans[id]))

\* except Exception: the plan is marked and the error response returned
ErrorExit(r, plans) ==
    LET id == r_plan[r]
        marked == [plans EXCEPT ![id].status = "error"]
    IN /\ active_plans' = marked
       /\ rpc' = [rpc EXCEPT ![r] = "done"]
       /\ r_response' = [r_response EXCEPT ![r] = ErrorResponse(id, marked[id], max_iterations)]
       /\ UNCHANGED <<iteration, steps_appended, llm_sites, llm_input>>

\* _execute_search returned: the step is added to the plan, and the loop goes
\* on to its next suspension.  first tells the first step from a later one.
AfterSearch(r, plans, step, first, planned, it, resp) ==
    LET id == r_plan[r]
        searched == [query |-> step.query, reasoning |-> step.reasoning,
                     results |-> resp.results, sources |-> SourcesOf(resp.results)]
        plan == [plans[id] EXCEPT !.steps = Append(@, searched),
                                  !.planned_queries = IF first THEN planned ELSE @]
    IN /\ LoopHead(r, [plans EXCEPT ![id] = plan], id,
                   IF first THEN Len(plan.steps) ELSE it + 1, max_iterations, llm_sites[r])
       /\ steps_appended' = [steps_appended EXCEPT ![r] = @ + 1]

\* await self._execute_search(query): the executor call starts; when no
\* adapter call is awaited it returns at once.
DispatchSearch(r, plans, step, first, planned, it) ==
    /\ execute_prioritized_search(ExecOf(r))
    /\ r_step' = [r_step EXCEPT ![r] = step]
    /\ UNCHANGED r_response
    /\ IF pc'[ExecOf(r)] = "returned"
       THEN AfterSearch(r, plans, step, first, planned, it, response'[ExecOf(r)])
       ELSE /\ active_plans' = plans
            /\ iteration' = [iteration EXCEPT ![r] = it]
            /\ rpc' = [rpc EXCEPT ![r] = IF first THEN "first_search" ELSE "next_search"]
            /\ UNCHANGED <<steps_appended, llm_sites, llm_input>>

\* POST /agentic-search: the endpoint sets the engine's max_iterations and
\* awaits execute_research, which runs up to its first language-model call.
agentic_search(r, query, plan_id, request_max_iterations) ==
    /\ rpc[r] \in {"idle", "done"}
    /\ LET cap == IF request_max_iterations # 0 THEN request_max_iterations
                  ELSE max_iterations
           known == plan_id # NoPlanId /\ plan_id \in DOMAIN active_plans
           id == IF known THEN plan_id ELSE Len(active_plans) + 1
           table == IF known THEN active_plans
                    ELSE Append(active_plans, ResearchPlan(query))
           plans == [table EXCEPT ![id] = Entered(@)]
       IN /\ max_iterations' = cap
          /\ r_plan' = [r_plan EXCEPT ![r] = id]
          /\ r_query' = [r_query EXCEPT ![r] = query]
          /\ r_max_iterations' = [r_max_iterations EXCEPT ![r] = cap]
          /\ r_step' = [r_step EXCEPT ![r] = NoStep]
          /\ initial_plan' = [initial_plan EXCEPT ![r] = NoDict]
          /\ analysis' = [analysis EXCEPT ![r] = NoDict]
          /\ analysis_calls' = [analysis_calls EXCEPT ![r] = 0]
          /\ r_response' = [r_response EXCEPT ![r] = NoResponse]
          /\ steps_appended' = [steps_appended EXCEPT ![r] = 0]
          /\ llm_answer' = [llm_answer EXCEPT ![r] = NoDict]
          /\ IF plans[id].steps = <<>>
             THEN /\ active_plans' = plans
                  /\ iteration' = [iteration EXCEPT ![r] = 0]
                  /\ rpc' = [rpc EXCEPT ![r] = "planning"]
                  /\ StartCall(r, <<>>, "planning", PlanningInput(query))
             ELSE LoopHead(r, plans, id, Len(plans[id].steps), cap, <<>>)
    /\ UNCHANGED <<execVars, lookup>>

\* The planning call of the language model ends; the first search starts.
PlanningReturns(r, answer) ==
    /\ rpc[r] = "planning"
    /\ llm_answer' = [llm_answer EXCEPT ![r] = answer]
    /\ UNCHANGED <<max_iterations, r_plan, r_query, r_max_iterations, analysis, analysis_calls, lookup>>
    /\ IF answer.kind = "raise"
       THEN /\ ErrorExit(r, active_plans)
            /\ UNCHANGED <<r_step, initial_plan, execVars>>
       ELSE LET ip == plan_initial_research(r_query[r], answer) IN
            /\ initial_plan' = [initial_plan EXCEPT ![r] = ip]
            /\ IF HasInitialQueries(ip)
               THEN IF HasQueryAndReasoning(ip.initial_queries[1])
                    THEN DispatchSearch(r, active_plans, ip.initial_queries[1], TRUE,
                                        FirstPlanned(ip), 0)
                    ELSE /\ ErrorExit(r, active_plans)
                         /\ UNCHANGED <<r_step, execVars>>
               ELSE DispatchSearch(r, active_plans,
                        [query |-> r_query[r],
                         reasoning |-> "Initial direct search for the original query"],
                        TRUE, <<>>, 0)

\* The executor call awaited by _execute_search returned with this action.
SearchReturns(r) ==
    IF pc'[ExecOf(r)] = "returned"
    THEN /\ AfterSearch(r, active_plans, r_step[r], rpc[r] = "first_search",
                        FirstPlanned(initial_plan[r]), iteration[r], response'[ExecOf(r)])
         /\ UNCHANGED <<max_iterations, r_plan, r_query, r_max_iterations, r_step, initial_plan, analysis,
                        analysis_calls, r_response, lookup, llm_answer>>
    ELSE UNCHANGED researchVars

\* An urgent adapter call of the research's search ends.
SearchUrgentCallEnds(r, kind, res) ==
    /\ rpc[r] \in {"first_search", "next_search"}
    /\ UrgentCallEnds(ExecOf(r), kind, res)
    /\ SearchReturns(r)

\* A deferred adapter call of the research's search ends.
SearchDeferredCallEnds(r, t, kind, res) ==
    /\ rpc[r] \in {"first_search", "next_search"}
    /\ DeferredCallEnds(ExecOf(r), t, kind, res)
    /\ SearchReturns(r)

\* The analysis call of the language model ends: the loop is left, or the
\* next query is chosen and its search starts.
AnalysisReturns(r, answer) ==
    /\ rpc[r] = "analyzing"
    /\ analysis_calls' = [analysis_calls EXCEPT ![r] = @ + 1]
    /\ llm_answer' = [llm_answer EXCEPT ![r] = answer]
    /\ UNCHANGED <<max_iterations, r_plan, r_query, r_max_iterations, initial_plan, lookup>>
    /\ IF answer.kind = "raise"
       THEN /\ ErrorExit(r, active_plans)
            /\ UNCHANGED <<r_step, analysis, execVars>>
       ELSE LET id == r_plan[r]
                an == analyze_results_and_plan_next(active_plans[id], answer, max_iterations)
                nq == NextQuery(active_plans[id], an, r_query[r])
                plans == [active_plans EXCEPT ![id] = nq.plan]
            IN /\ analysis' = [analysis EXCEPT ![r] = an]
               /\ IF InformationSufficient(an)
                  THEN /\ rpc' = [rpc EXCEPT ![r] = "synthesizing"]
                       /\ StartCall(r, llm_sites[r], "synthesis",
                                    SynthesisInput(active_plans[id]))
                       /\ UNCHANGED <<active_plans, iteration, r_step, r_response,
                                      steps_appended, execVars>>
                  ELSE IF nq.ok
                  THEN DispatchSearch(r, plans, nq.info, FALSE, <<>>, iteration[r])
                  ELSE /\ ErrorExit(r, plans)
                       /\ UNCHANGED <<r_step, execVars>>

\* The synthesis call of the language model ends.
SynthesisReturns(r, answer) ==
    /\ rpc[r] = "synthesizing"
    /\ llm_answer' = [llm_answer EXCEPT ![r] = answer]
    /\ IF answer.kind = "raise"
       THEN ErrorExit(r, active_plans)
       ELSE /\ active_plans' = [active_plans EXCEPT ![r_plan[r]].synthesis = answer.value,
                                                    ![r_plan[r]].status = "completed"]
            /\ rpc' = [rpc EXCEPT ![r] = "relating"]
            /\ StartCall(r, llm_sites[r], "related",
                         RelatedInput(active_plans[r_plan[r]].original_query, answer.value))
            /\ UNCHANGED <<iteration, r_response, steps_appended>>
    /\ UNCHANGED <<max_iterations, r_plan, r_query, r_max_iterations, r_step, initial_plan, analysis,
                   analysis_calls, lookup, execVars>>

\* The related-searches call ends and execute_research returns its response.
RelatedReturns(r, answer) ==
    /\ rpc[r] = "relating"
    /\ r_response' = [r_response EXCEPT ![r] =
           CompletedResponse(r_plan[r], active_plans[r_plan[r]],
                             generate_related_searches(active_plans[r_plan[r]].original_query,
                                                       answer),
                             max_iterations)]
    /\ rpc' = [rpc EXCEPT ![r] = "done"]
    /\ llm_answer' = [llm_answer EXCEPT ![r] = answer]
    /\ UNCHANGED <<max_iterations, active_plans, r_plan, r_query, r_max_iterations, iteration, r_step,
                   initial_plan, analysis, analysis_calls, steps_appended, lookup, execVars,
                   llm_sites, llm_input>>

\* GET /research-plan/{plan_id}: get_research_plan has no await, it runs in one
\* piece between the steps of the research calls.
GetResearchPlan(plan_id) ==
    /\ lookup' = [plan_id |-> plan_id, value |-> get_research_plan(active_plans, plan_id)]
    /\ UNCHANGED <<execVars, max_iterations, active_plans, rpc, r_plan, r_query, r_max_iterations, iteration,
                   r_step, initial_plan, analysis, analysis_calls, r_response, steps_appended,
                   llm_sites, llm_input, llm_answer>>

\* AgenticSearchEngine.__init__
\* the engine with the execute_research calls named in researches not yet made
InitEngineFor(caps, researches) ==
    /\ max_iterations \in caps
    /\ active_plans = <<>>
    /\ rpc = [r \in researches |-> "idle"]
    /\ r_plan = [r \in researches |-> NoPlanId]
    /\ r_query = [r \in researches |-> ""]
    /\ r_max_iterations = [r \in researches |-> 0]
    /\ iteration = [r \in researches |-> 0]
    /\ r_step = [r \in researches |-> NoStep]
    /\ initial_plan = [r \in researches |-> NoDict]
    /\ analysis = [r \in researches |-> NoDict]
    /\ analysis_calls = [r \in researches |-> 0]
    /\ r_response = [r \in researches |-> NoResponse]
    /\ steps_appended = [r \in researches |-> 0]
    /\ lookup = NoLookup
    /\ llm_sites = [r \in researches |-> <<>>]
    /\ llm_input = [r \in researches |-> NoDict]
    /\ llm_answer = [r \in researches |-> NoDict]

InitEngine(caps) == InitEngineFor(caps, Researches)

-----------------------------------------------------------------------------
(* Inputs *)

\* registrations as the program makes them (after the register_tool calls)
Registrations ==
    { <<>>,
      \* AgenticSearchEngine._setup_search_tools
      << Config(HIGH, 2, 10), Config(MEDIUM, 2, 10), Config(MEDIUM, 2, 5) >>,
      \* one adapter of each urgent tier registered after a deferred one
      << Config(LOW, 1, 5), Config(HIGH, 1, 5), Config(CRITICAL, 1, 5), Config(MEDIUM, 2, 5) >>,
      << Config(CRITICAL, 1, 5), Config(FALLBACK, 1, 5) >> }

\* what an adapter may return
ResultMenu ==
    { <<>>,
      << Item("u1", "a"), Item("", "n"), Item("", "n") >>,
      << Item("u2", "b"), Item("u1", "b") >>,
      << Item("u1", "a"), Item("u2", "a"), Item("u1", "b"), Item(Missing, "v"), Item(Missing, "v") >> }

Outcomes == {"return", "timeout", "exception"}

InitExecutor(registrations, execs) ==
    /\ tool_configs \in registrations
    /\ tool_stats = [t \in DOMAIN tool_configs |-> InitialStats]
    /\ last_circuit_break = <<>>
    /\ semaphore = SemaphorePermits
    /\ now = StartTime
    /\ pc = [e \in execs |-> "idle"]
    /\ hp_idx = [e \in execs |-> 0]
    /\ calls = [e \in execs |-> [t \in DOMAIN tool_configs |-> NoCall]]
    /\ all_results = [e \in execs |-> <<>>]
    /\ successful_tools = [e \in execs |-> <<>>]
    /\ critical_succeeded = [e \in execs |-> FALSE]
    /\ exec_start = [e \in execs |-> 0]
    /\ response = [e \in execs |-> EmptyResponse]
    /\ last_call_end = [t \in DOMAIN tool_configs |-> 0]
    /\ attempts = [t \in DOMAIN tool_configs |-> NoAttempt]

InitWith(registrations) == InitExecutor(registrations, Execs)

\* no new search starts once a tool was attempted max times
Below(max) == \A t \in Tools : tool_stats[t].request_count < max

\* the engine as main.py constructs it
Constructed == {5}

Init == InitWith(Registrations) /\ InitEngine(Constructed)

Next ==
    \/ \E e \in Execs : Below(MaxRequests) /\ execute_prioritized_search(e)
                      /\ UNCHANGED researchVars
    \/ \E e \in Execs, kind \in Outcomes, res \in ResultMenu :
          /\ kind # "return" => res = <<>>
          /\ UrgentCallEnds(e, kind, res)
          /\ UNCHANGED researchVars
    \/ \E e \in Execs, t \in Tools, kind \in Outcomes, res \in ResultMenu :
          /\ kind # "return" => res = <<>>
          /\ DeferredCallEnds(e, t, kind, res)
          /\ UNCHANGED researchVars
    \/ now < MaxTime /\ Tick(1) /\ UNCHANGED researchVars

\* Searches with every kind of adapter outcome and result list.
Spec == Init /\ [][Next]_vars

-----------------------------------------------------------------------------
(* The circuit breaker over several searches and cool-down windows.  The    *)
(* clock is read every BreakerTick seconds and the adapters are registered  *)
(* with that timeout.                                                       *)

BreakerRegistrations ==
    { << Config(HIGH, BreakerTick, 5), Config(MEDIUM, BreakerTick, 5) >>,
      << Config(CRITICAL, BreakerTick, 5) >>,
      << Config(LOW, BreakerTick, 5) >> }

BreakerMenu == { <<>>, << Item("u1", "a") >> }

InitBreaker == InitWith(BreakerRegistrations) /\ InitEngine(Constructed)

NextBreaker ==
    \/ \E e \in Execs : Below(MaxBreakerRequests) /\ execute_prioritized_search(e)
                      /\ UNCHANGED researchVars
    \/ \E e \in Execs, kind \in Outcomes, res \in BreakerMenu :
          /\ kind # "return" => res = <<>>
          /\ UrgentCallEnds(e, kind, res)
          /\ UNCHANGED researchVars
    \/ \E e \in Execs, t \in Tools, kind \in Outcomes, res \in BreakerMenu :
          /\ kind # "return" => res = <<>>
          /\ DeferredCallEnds(e, t, kind, res)
          /\ UNCHANGED researchVars
    \/ now + BreakerTick <= StartTime + MaxBreakerTime /\ Tick(BreakerTick)
          /\ UNCHANGED researchVars

SpecBreaker == InitBreaker /\ [][NextBreaker]_vars

-----------------------------------------------------------------------------
(* Many searches in a row with adapters that answer at once: the success    *)
(* rate moves through every fraction up to MaxThresholdRequests calls.      *)

ThresholdRegistrations ==
    { << Config(HIGH, 1, 5) >>, << Config(MEDIUM, 1, 5) >> }

InitThreshold == InitWith(ThresholdRegistrations) /\ InitEngine(Constructed)

NextThreshold ==
    \/ \E e \in Execs : Below(MaxThresholdRequests) /\ execute_prioritized_search(e)
                      /\ UNCHANGED researchVars
    \/ \E e \in Execs, kind \in Outcomes, res \in BreakerMenu :
          /\ kind # "return" => res = <<>>
          /\ UrgentCallEnds(e, kind, res)
          /\ UNCHANGED researchVars
    \/ \E e \in Execs, t \in Tools, kind \in Outcomes, res \in BreakerMenu :
          /\ kind # "return" => res = <<>>
          /\ DeferredCallEnds(e, t, kind, res)
          /\ UNCHANGED researchVars

SpecThreshold == InitThreshold /\ [][NextThreshold]_vars

-----------------------------------------------------------------------------
(* Research requests, one after the other, on an engine with the adapters   *)
(* of _setup_search_tools; the language model answers in every way the      *)
(* engine tells apart.                                                       *)

ResearchRegistrations ==
    { << Config(HIGH, 10, 10), Config(MEDIUM, 10, 10), Config(MEDIUM, 10, 5) >> }

ResearchMenu == { << Item("u1", "a") >> }

ResearchOutcomes == {"return", "exception"}

Queries == {"q"}

Qa == [query |-> "a", reasoning |-> "ra"]
Qb == [query |-> "b", reasoning |-> "rb"]
Qc == [query |-> "c", reasoning |-> "rc"]

PlanningAnswers ==
    { Raise, Text,
      Json([initial_queries |-> <<Qa, Qb>>]),
      Json([initial_queries |-> <<>>]),
      Json([initial_queries |-> << [reasoning |-> "ra"] >>]) }

AnalysisAnswers ==
    { Raise, Text,
      Json([information_sufficient |-> TRUE, next_queries |-> <<Qc>>]),
      Json([information_sufficient |-> FALSE, next_queries |-> <<>>]),
      Json([information_sufficient |-> FALSE, next_queries |-> <<Qc>>]),
      Json([next_queries |-> << [query |-> "c"] >>]) }

SynthesisAnswers == { Raise, [kind |-> "text", value |-> "report"] }

\* an answer that is not a JSON array of strings: prose, or JSON of another
\* type; the line-by-line extraction reads its lines
Lines(kind, lines) == [kind |-> kind, lines |-> lines]

RelatedAnswers ==
    { Raise, Json(<<>>), Json(<< "x" >>),
      Json(<< "s1", "s2", "s3", "s4", "s5", "s6" >>),
      \* the empty response
      Lines("text", <<>>),
      \* only brackets and comments
      Lines("text", << Line("bracket", "["), Line("comment", "// none"), Line("bracket", "]") >>),
      Lines("text", << Line("preface", "Here are some queries"), Line("short", "ab"),
                       Line("query", "related one"), Line("blank", "") >>),
      \* a JSON object on one line
      Lines("json_other", << Line("query", "{\"queries\": 1}") >>) }

InitResearch == InitWith(ResearchRegistrations) /\ InitEngine(0..MaxIterations)

NextResearch ==
    \/ \E r \in Researches, query \in Queries, plan_id \in 0..MaxPlans,
          request_max_iterations \in 0..MaxIterations :
          /\ (plan_id = NoPlanId \/ plan_id \notin DOMAIN active_plans)
                 => Len(active_plans) < MaxPlans
          /\ agentic_search(r, query, plan_id, request_max_iterations)
    \/ \E r \in Researches, answer \in PlanningAnswers : PlanningReturns(r, answer)
    \/ \E r \in Researches, kind \in ResearchOutcomes, res \in ResearchMenu :
          /\ kind # "return" => res = <<>>
          /\ SearchUrgentCallEnds(r, kind, res)
    \/ \E r \in Researches, t \in Tools, kind \in ResearchOutcomes, res \in ResearchMenu :
          /\ kind # "return" => res = <<>>
          /\ SearchDeferredCallEnds(r, t, kind, res)
    \/ \E r \in Researches, answer \in AnalysisAnswers : AnalysisReturns(r, answer)
    \/ \E r \in Researches, answer \in SynthesisAnswers : SynthesisReturns(r, answer)
    \/ \E r \in Researches, answer \in RelatedAnswers : RelatedReturns(r, answer)

SpecResearch == InitResearch /\ [][NextResearch]_vars

\* The calls the engine awaits return: no execute_research call waits forever
\* for the language model or for an adapter.
FairResearch == SpecResearch /\ WF_vars(NextResearch)

-----------------------------------------------------------------------------
(* Several execute_prioritized_search calls running at once on one executor *)
(* (AgentPipeline gathers one call per query), with the adapters the        *)
(* pipeline registers.  The clock stands still: every adapter answers       *)
(* before its timeout.                                                      *)

ConcurrentExecs == {"e" \o ToString(i) : i \in 1..MaxConcurrent}

\* AgentPipeline.__init__
PipelineRegistrations ==
    { << Config(HIGH, 5, 8), Config(MEDIUM, 6, 8), Config(MEDIUM, 7, 3),
         Config(LOW, 8, 5), Config(LOW, 8, 3) >> }

PipelineMenu == { << Item("u1", "a") >> }

InitSemaphore == InitExecutor(PipelineRegistrations, ConcurrentExecs) /\ InitEngine(Constructed)

NextSemaphore ==
    \/ \E e \in ConcurrentExecs : pc[e] = "idle" /\ execute_prioritized_search(e)
                                /\ UNCHANGED researchVars
    \/ \E e \in ConcurrentExecs, res \in PipelineMenu :
          UrgentCallEnds(e, "return", res) /\ UNCHANGED researchVars
    \/ \E e \in ConcurrentExecs, t \in Tools, res \in PipelineMenu :
          DeferredCallEnds(e, t, "return", res) /\ UNCHANGED researchVars
    \/ \E e \in ConcurrentExecs, t \in Tools :
          SemaphoreEntered(e, t) /\ UNCHANGED researchVars

SpecSemaphore == InitSemaphore /\ [][NextSemaphore]_vars

-----------------------------------------------------------------------------
(* One search over more deferred adapters than there are permits.           *)
(* The first adapters are unreliable: they answer, raise or hang until the  *)
(* timeout; the others answer before the clock is read again, and a task   *)
(* that can take a permit does so before the clock is read again.           *)

PermitExecs == {"e1"}

PermitRegistrations == { [i \in 1..PermitAdapters |-> Config(MEDIUM, BreakerTick, 3)] }

Unreliable(t) == t <= MaxUnreliable

OutcomesOf(t) == IF Unreliable(t) THEN Outcomes ELSE {"return"}

InitPermits == InitExecutor(PermitRegistrations, PermitExecs) /\ InitEngine(Constructed)

CallEnds ==
    \E e \in PermitExecs, t \in 1..PermitAdapters, kind \in Outcomes :
       /\ kind \in OutcomesOf(t)
       /\ DeferredCallEnds(e, t, kind, IF kind = "return" THEN << Item("u1", "a") >> ELSE <<>>)
       /\ UNCHANGED researchVars

Admitted ==
    \E e \in PermitExecs, t \in 1..PermitAdapters :
       SemaphoreEntered(e, t) /\ UNCHANGED researchVars

NextPermits ==
    \/ \E e \in PermitExecs : pc[e] = "idle" /\ execute_prioritized_search(e)
                            /\ UNCHANGED researchVars
    \/ CallEnds
    \/ Admitted
    \/ /\ now + BreakerTick <= StartTime + MaxPermitTime
       /\ \A e \in PermitExecs, t \in 1..PermitAdapters :
             /\ calls[e][t].state = "in_flight" => Unreliable(t)
             /\ calls[e][t].state = "waiting" => semaphore = 0
       /\ Tick(BreakerTick)
       /\ UNCHANGED researchVars

SpecPermits == InitPermits /\ [][NextPermits]_vars

\* the event loop runs every task that is ready: an adapter call in flight
\* ends (by its answer, its exception or the timer of wait_for), and a task
\* waiting at the semaphore is woken when a permit is free
FairPermits == SpecPermits /\ WF_vars(CallEnds) /\ WF_vars(Admitted)

-----------------------------------------------------------------------------
(* One adapter that fails a few times, by an exception or by hanging until  *)
(* its timeout, and answers every other call.  The caller keeps searching;  *)
(* the clock is read again when a call hangs or the adapter cools down.     *)

RecoveryRegistrations == { << Config(HIGH, circuit_breaker_reset_time, 5) >> }

\* the adapter has failures left
MayFail(t) == attempts[t].n - attempts[t].s < MaxFailures

Search ==
    \E e \in Execs : Below(MaxRecoveryRequests) /\ execute_prioritized_search(e)
                    /\ UNCHANGED researchVars

Answer ==
    \E e \in Execs, kind \in Outcomes :
       /\ kind # "return" => \A t \in Tools : MayFail(t)
       /\ UrgentCallEnds(e, kind, IF kind = "return" THEN << Item("u1", "a") >> ELSE <<>>)
       /\ UNCHANGED researchVars

Wait ==
    /\ \A e \in Execs, t \in Tools :
          IF calls[e][t].state = "in_flight"
          THEN MayFail(t)
          ELSE Skipped(t, tool_stats, last_circuit_break, now)
    /\ Tick(circuit_breaker_reset_time)
    /\ UNCHANGED researchVars

InitRecovery == InitWith(RecoveryRegistrations) /\ InitEngine(Constructed)

NextRecovery == Search \/ Answer \/ Wait

SpecRecovery == InitRecovery /\ [][NextRecovery]_vars

\* the caller goes on searching, an awaited adapter call ends, and time passes
FairRecovery == SpecRecovery /\ WF_vars(Search) /\ WF_vars(Answer) /\ WF_vars(Wait)

-----------------------------------------------------------------------------
(* Searches whose adapters may hang: an adapter call answers, raises, or    *)
(* never returns, and then wait_for ends it at its timeout.  The clock goes *)
(* on while a call is in flight.                                            *)

HangMenu == { << Item("u1", "a") >> }

Searches ==
    \E e \in Execs : Below(MaxRequests) /\ execute_prioritized_search(e)
                    /\ UNCHANGED researchVars

AdapterAnswers ==
    \E e \in Execs, t \in Tools, kind \in {"return", "exception"}, res \in HangMenu :
       /\ calls[e][t].state = "in_flight"
       /\ IF IsUrgent(t)
          THEN UrgentCallEnds(e, kind, IF kind = "return" THEN res ELSE <<>>)
          ELSE DeferredCallEnds(e, t, kind, IF kind = "return" THEN res ELSE <<>>)
       /\ UNCHANGED researchVars

TimeoutFires ==
    \E e \in Execs, t \in Tools :
       /\ calls[e][t].state = "in_flight"
       /\ IF IsUrgent(t)
          THEN UrgentCallEnds(e, "timeout", <<>>)
          ELSE DeferredCallEnds(e, t, "timeout", <<>>)
       /\ UNCHANGED researchVars

ClockAdvances ==
    /\ IF InFlightNow THEN TRUE ELSE now < MaxTime
    /\ Tick(1)
    /\ UNCHANGED researchVars

InitHang == InitWith(Registrations) /\ InitEngine(Constructed)

NextHang == Searches \/ AdapterAnswers \/ TimeoutFires \/ ClockAdvances

SpecHang == InitHang /\ [][NextHang]_vars

\* time passes and the timer of wait_for fires when it is due; nothing is
\* required of the adapters
FairHang == SpecHang /\ WF_vars(ClockAdvances) /\ WF_vars(TimeoutFires)

-----------------------------------------------------------------------------
(* One search over adapters of both urgent tiers, two of each, registered   *)
(* with the tiers interleaved, and one deferred adapter.                    *)

OrderRegistrations ==
    { << Config(HIGH, 1, 5), Config(MEDIUM, 1, 5), Config(CRITICAL, 1, 5),
         Config(HIGH, 2, 5), Config(CRITICAL, 2, 5) >> }

InitOrder == InitWith(OrderRegistrations) /\ InitEngine(Constructed)

NextOrder ==
    \/ \E e \in Execs : Below(MaxRequests) /\ execute_prioritized_search(e)
                      /\ UNCHANGED researchVars
    \/ \E e \in Execs, kind \in Outcomes, res \in BreakerMenu :
          /\ kind # "return" => res = <<>>
          /\ UrgentCallEnds(e, kind, res)
          /\ UNCHANGED researchVars
    \/ \E e \in Execs, t \in Tools, kind \in Outcomes, res \in BreakerMenu :
          /\ kind # "return" => res = <<>>
          /\ DeferredCallEnds(e, t, kind, res)
          /\ UNCHANGED researchVars
    \/ now < MaxTime /\ Tick(1) /\ UNCHANGED researchVars

SpecOrder == InitOrder /\ [][NextOrder]_vars

-----------------------------------------------------------------------------
(* Research whose adapters return overlapping result lists: the same URL in *)
(* several steps under different titles, and items with an empty URL.       *)

SourcesMenu ==
    { << Item("u1", "a"), Item("", "n") >>,
      << Item("u2", "b"), Item("u1", "b") >> }

InitSources == InitWith(ResearchRegistrations) /\ InitEngine({SourcesIterations})

NextSources ==
    \/ \E r \in Researches, query \in Queries, plan_id \in 0..MaxPlans :
          /\ (plan_id = NoPlanId \/ plan_id \notin DOMAIN active_plans)
                 => Len(active_plans) < MaxPlans
          /\ agentic_search(r, query, plan_id, SourcesIterations)
    \/ \E r \in Researches, answer \in PlanningAnswers : PlanningReturns(r, answer)
    \/ \E r \in Researches, kind \in ResearchOutcomes, res \in SourcesMenu :
          /\ kind # "return" => res = <<>>
          /\ SearchUrgentCallEnds(r, kind, res)
    \/ \E r \in Researches, t \in Tools, kind \in ResearchOutcomes, res \in SourcesMenu :
          /\ kind # "return" => res = <<>>
          /\ SearchDeferredCallEnds(r, t, kind, res)
    \/ \E r \in Researches, answer \in AnalysisAnswers : AnalysisReturns(r, answer)
    \/ \E r \in Researches, answer \in SynthesisAnswers : SynthesisReturns(r, answer)
    \/ \E r \in Researches, answer \in RelatedAnswers : RelatedReturns(r, answer)

SpecSources == InitSources /\ [][NextSources]_vars

-----------------------------------------------------------------------------
(* Research requests and, between their steps, look-ups of plan ids: of the *)
(* plans created so far and of ids no plan has.                             *)

LookupIds == 1..(MaxPlans + 1)

NextLookup ==
    \/ NextResearch
    \/ \E plan_id \in LookupIds : GetResearchPlan(plan_id)

SpecLookup == InitResearch /\ [][NextLookup]_vars

-----------------------------------------------------------------------------
(* The analysis parser on its own: an analysis call of a research with one  *)
(* or two steps has answered with a text of up to MaxTokens tokens, fenced   *)
(* or not, and _analyze_results_and_plan_next turns it into the analysis.   *)

TextsOfLength(n) == [1..n -> JsonTokens \cup {"w"}]

BareTexts == UNION {TextsOfLength(n) : n \in 0..MaxTokens}

\* an object, with a trailing comma or a missing brace, in a fence after prose
FencedTexts ==
    { <<"w", fence>> \o body \o closing :
         fence \in Fences,
         body \in {<<"{", "k", "s", "}">>, <<"{", "k", "s", ",", "}">>,
                   <<"{", "k", "[", "s", ",">>, <<"w", "w">>},
         closing \in {<<>>, <<"<fence>">>, <<"<fence>", "w">>} }

\* longer answers: an object whose array has a trailing comma and one closing
\* bracket too many, the same with a trailing comma inside an entry, and an
\* object left open
LongTexts ==
    { <<"{", "k", "[", "s", ",", "]", "]", "}">>,
      <<"{", "k", "[", "{", "k", "s", ",", "}", ",", "]", "]", "}">>,
      <<"{", "k", "[", "{", "k", "s", ",", "}", ",", "]">>,
      <<"{", "k", "s", ",", "k", "[", "s", ",">> }

AnalysisTexts == {[tokens |-> t] : t \in BareTexts \cup FencedTexts \cup LongTexts}

\* a plan with n searched steps
SearchedPlan(n) ==
    [ResearchPlan("q") EXCEPT
        !.status = "in_progress",
        !.steps = [i \in 1..n |-> [query |-> "q", reasoning |-> "r",
                                   results |-> <<>>, sources |-> <<>>]]]

InitParser ==
    /\ InitWith({<<>>})
    /\ max_iterations = MaxIterations
    /\ active_plans \in {<<SearchedPlan(n)>> : n \in 1..(MaxIterations - 1)}
    /\ rpc = [r \in Researches |-> "analyzing"]
    /\ r_plan = [r \in Researches |-> 1]
    /\ r_query = [r \in Researches |-> "q"]
    /\ r_max_iterations = [r \in Researches |-> MaxIterations]
    /\ iteration = [r \in Researches |-> Len(active_plans[1].steps)]
    /\ r_step = [r \in Researches |-> NoStep]
    /\ initial_plan = [r \in Researches |-> NoDict]
    /\ analysis = [r \in Researches |-> NoDict]
    /\ analysis_calls = [r \in Researches |-> 0]
    /\ r_response = [r \in Researches |-> NoResponse]
    /\ steps_appended = [r \in Researches |-> 0]
    /\ lookup = NoLookup
    /\ llm_sites = [r \in Researches |-> <<"analysis">>]
    /\ llm_input = [r \in Researches |-> AnalysisInput(active_plans[1])]
    /\ llm_answer \in [Researches -> AnalysisTexts]

\* _analyze_results_and_plan_next from the answer of the call to its return
AnalysisParsed(r) ==
    /\ rpc[r] = "analyzing"
    /\ analysis' = [analysis EXCEPT ![r] =
           analyze_results_and_plan_next(active_plans[r_plan[r]], Decoded(llm_answer[r]),
                                         max_iterations)]
    /\ analysis_calls' = [analysis_calls EXCEPT ![r] = @ + 1]
    /\ rpc' = [rpc EXCEPT ![r] = "analyzed"]
    /\ UNCHANGED <<execVars, max_iterations, active_plans, r_plan, r_query, r_max_iterations, iteration, r_step,
                   initial_plan, r_response, steps_appended, lookup, llm_sites, llm_input,
                   llm_answer>>

NextParser == \E r \in Researches : AnalysisParsed(r)

SpecParser == InitParser /\ [][NextParser]_vars

-----------------------------------------------------------------------------
(* Several execute_prioritized_search calls gathered on one executor, as    *)
(* AgentPipeline.run starts them for the queries of one request, with       *)
(* adapters that may fail and a clock that passes the cool-down window.     *)

ProbingExecs == {"e" \o ToString(i) : i \in 1..MaxProbing}

ProbingRegistrations ==
    { << Config(HIGH, BreakerTick, 5) >>,
      << Config(MEDIUM, BreakerTick, 5) >> }

InitProbing == InitExecutor(ProbingRegistrations, ProbingExecs) /\ InitEngine(Constructed)

NextProbing ==
    \/ \E e \in ProbingExecs : Below(MaxProbingRequests) /\ execute_prioritized_search(e)
                             /\ UNCHANGED researchVars
    \/ \E e \in ProbingExecs, kind \in Outcomes, res \in BreakerMenu :
          /\ kind # "return" => res = <<>>
          /\ UrgentCallEnds(e, kind, res)
          /\ UNCHANGED researchVars
    \/ \E e \in ProbingExecs, t \in Tools, kind \in Outcomes, res \in BreakerMenu :
          /\ kind # "return" => res = <<>>
          /\ DeferredCallEnds(e, t, kind, res)
          /\ UNCHANGED researchVars
    \/ now + BreakerTick <= StartTime + MaxBreakerTime /\ Tick(BreakerTick)
          /\ UNCHANGED researchVars

SpecProbing == InitProbing /\ [][NextProbing]_vars

-----------------------------------------------------------------------------
(* Two /agentic-search requests awaited at the same time on the shared      *)
(* engine: each execute_research call is suspended at its language-model    *)
(* and search calls while the other runs.  A request may name the plan of   *)
(* an earlier response.                                                      *)

OverlapResearches == {"r1", "r2"}

OverlapExecs == {ExecOf(r) : r \in OverlapResearches}

OverlapRegistrations == { << Config(HIGH, 10, 10) >> }

OverlapPlanning == { Json([initial_queries |-> <<Qa>>]) }

OverlapAnalysis ==
    { Json([information_sufficient |-> TRUE, next_queries |-> <<>>]),
      Json([information_sufficient |-> FALSE, next_queries |-> <<Qc>>]) }

OverlapSynthesis == { [kind |-> "text", value |-> "report"] }

OverlapRelated == { Json(<< "x" >>) }

\* a client knows the id of a plan from a response it received
Returned(plan_id) ==
    \E r \in DOMAIN rpc : r_response[r].status # "none" /\ r_response[r].plan_id = plan_id

InitOverlap ==
    /\ InitExecutor(OverlapRegistrations, OverlapExecs)
    /\ InitEngineFor(Constructed, OverlapResearches)

NextOverlap ==
    \/ \E r \in OverlapResearches, query \in Queries, plan_id \in 0..OverlapPlans,
          request_max_iterations \in 1..OverlapIterations :
          /\ (plan_id = NoPlanId \/ plan_id \notin DOMAIN active_plans)
                 => Len(active_plans) < OverlapPlans
          /\ plan_id \in DOMAIN active_plans => Returned(plan_id)
          /\ agentic_search(r, query, plan_id, request_max_iterations)
    \/ \E r \in OverlapResearches, answer \in OverlapPlanning : PlanningReturns(r, answer)
    \/ \E r \in OverlapResearches, res \in ResearchMenu : SearchUrgentCallEnds(r, "return", res)
    \/ \E r \in OverlapResearches, answer \in OverlapAnalysis : AnalysisReturns(r, answer)
    \/ \E r \in OverlapResearches, answer \in OverlapSynthesis : SynthesisReturns(r, answer)
    \/ \E r \in OverlapResearches, answer \in OverlapRelated : RelatedReturns(r, answer)

SpecOverlap == InitOverlap /\ [][NextOverlap]_vars

-----------------------------------------------------------------------------
(* Claims about execute_prioritized_search *)

Invoked(c) == c.state \in {"in_flight", "waiting", "done"}

DeferredTools == {t \in Tools : ~IsUrgent(t)}

RECURSIVE SumResults(_, _, _)
SumResults(cl, seq, k) ==
    IF k > Len(seq) THEN 0
    ELSE (IF cl[seq[k]].success THEN Len(cl[seq[k]].results) ELSE 0) + SumResults(cl, seq, k + 1)

\* items the urgent adapters returned in this call, before deduplication
UrgentItemCount(e) == SumResults(calls[e], high_priority_configs, 1)

CriticalSuccess(e) ==
    \E t \in Tools : tool_configs[t].priority = CRITICAL /\ calls[e][t].success

\* C1: when a CRITICAL adapter call succeeded and the urgent phase gathered 5
\* or more items (before deduplication), no MEDIUM, LOW or FALLBACK adapter is
\* invoked in that call.
C1_EarlyExitSkipsDeferred ==
    \A e \in Execs :
        (CriticalSuccess(e) /\ UrgentItemCount(e) >= 5)
            => \A t \in DeferredTools : ~Invoked(calls[e][t])

\* a call returned after a CRITICAL success with exactly 5 urgent items while
\* an enabled deferred adapter with a closed circuit is registered
C1_Witness ==
    \E e \in Execs :
        /\ pc[e] = "returned"
        /\ CriticalSuccess(e)
        /\ UrgentItemCount(e) = 5
        /\ \E t \in DeferredTools : tool_configs[t].enabled /\ calls[e][t].state = "none"

Failed(c) == c.state = "done" /\ c.kind \in {"timeout", "exception"}

\* C2: whatever the adapters do (return, raise, time out),
\* execute_prioritized_search does not raise; it returns results, sources and
\* stats, and an adapter that timed out or raised contributes no item, is not
\* a source and is recorded as a failure.
C2_NeverRaises ==
    \A e \in Execs :
        /\ pc[e] # "raised"
        /\ pc[e] = "returned" =>
              /\ DOMAIN response[e] = {"results", "sources", "stats"}
              /\ \A t \in Tools : Failed(calls[e][t]) =>
                    /\ calls[e][t].results = <<>>
                    /\ ~calls[e][t].success
                    /\ t \notin Range(response[e].sources)
                    /\ \A i \in DOMAIN all_results[e] : all_results[e][i].source # t
                    /\ \A i \in DOMAIN response[e].results : response[e].results[i].source # t
                    /\ ~tool_stats[t].last_success
                    /\ tool_stats[t].request_count >= 1

\* a call returned although one adapter timed out and another one raised
C2_Witness ==
    \E e \in Execs :
        /\ pc[e] = "returned"
        /\ \E t, u \in Tools :
              /\ calls[e][t].state = "done" /\ calls[e][t].kind = "timeout"
              /\ calls[e][u].state = "done" /\ calls[e][u].kind = "exception"

Kept(item, results) ==
    IF UrlOf(item) = ""
    THEN item \in Range(results)
    ELSE \E i \in DOMAIN results : UrlOf(results[i]) = UrlOf(item)

\* C3: a timeout or failure of one adapter call ends only that call: every
\* adapter that was invoked and succeeded in the same search has its items in
\* the returned results (up to URL deduplication) and is in the sources.
C3_FailureIsolated ==
    \A e \in Execs :
        pc[e] = "returned" =>
            \A t \in Tools : calls[e][t].success =>
                /\ t \in Range(response[e].sources)
                /\ \A i \in DOMAIN calls[e][t].results :
                       Kept(calls[e][t].results[i], response[e].results)

\* a deferred adapter timed out, a deferred adapter registered after it and
\* an urgent adapter both succeeded with items, and the call returned
C3_Witness ==
    \E e \in Execs :
        /\ pc[e] = "returned"
        /\ \E t, u \in DeferredTools, h \in Tools :
              /\ t < u
              /\ tool_configs[t].priority = tool_configs[u].priority
              /\ calls[e][t].state = "done" /\ calls[e][t].kind = "timeout"
              /\ calls[e][u].success /\ calls[e][u].results # <<>>
              /\ IsUrgent(h) /\ calls[e][h].success /\ calls[e][h].results # <<>>

FirstIndex(ar, url) ==
    CHOOSE i \in DOMAIN ar : UrlOf(ar[i]) = url /\ \A j \in 1..(i - 1) : UrlOf(ar[j]) # url

WithoutUrl(item) == UrlOf(item) = ""

\* C4: the returned results hold each non-empty URL exactly once, the item
\* kept for a URL is its first occurrence in the merge list, and every item
\* without URL is retained, content-identical ones included.
C4_Deduplicated ==
    \A e \in Execs :
        pc[e] = "returned" =>
            LET r == response[e].results
                ar == all_results[e]
            IN /\ \A i, j \in DOMAIN r :
                      (i # j /\ UrlOf(r[i]) # "") => UrlOf(r[i]) # UrlOf(r[j])
               /\ \A k \in DOMAIN ar : UrlOf(ar[k]) # "" =>
                      \E i \in DOMAIN r : r[i] = ar[FirstIndex(ar, UrlOf(ar[k]))]
               /\ \A i \in DOMAIN r :
                      UrlOf(r[i]) # "" => r[i] = ar[FirstIndex(ar, UrlOf(r[i]))]
               /\ SelectSeq(r, WithoutUrl) = SelectSeq(ar, WithoutUrl)

\* the merge list holds a URL twice with different content, from two adapters,
\* and the same URL-less item twice
C4_Witness ==
    \E e \in Execs :
        /\ pc[e] = "returned"
        /\ \E i, j \in DOMAIN all_results[e] :
              /\ i < j
              /\ UrlOf(all_results[e][i]) = UrlOf(all_results[e][j])
              /\ UrlOf(all_results[e][i]) # ""
              /\ all_results[e][i].title # all_results[e][j].title
              /\ all_results[e][i].source # all_results[e][j].source
        /\ \E i, j \in DOMAIN all_results[e] :
              i < j /\ UrlOf(all_results[e][i]) = "" /\ all_results[e][i] = all_results[e][j]
        /\ Len(response[e].results) < Len(all_results[e])

AtOrBelowThreshold(st) == ~FracGT(st.success_rate, circuit_breaker_threshold)

\* C5: whenever a call outcome leaves an adapter's success rate at or below
\* 0.3, every search made within the next 60 seconds skips the adapter: no
\* call to it starts less than 60 seconds after that outcome.
C5_TrippedAtOrBelowThreshold ==
    \A e \in Execs : \A t \in Tools :
        (/\ calls[e][t].state = "in_flight"
         /\ tool_stats[t].request_count >= 1
         /\ AtOrBelowThreshold(tool_stats[t]))
            => calls[e][t].start_time - last_call_end[t] >= circuit_breaker_reset_time

\* C6: the breaker never suppresses an enabled adapter once 60 seconds or more
\* have passed since its last trip: an enabled adapter is skipped only less
\* than 60 seconds after a recorded trip.
C6_InvokedAfterCoolDown ==
    \A e \in Execs : \A t \in Tools :
        (calls[e][t].state = "skipped" /\ tool_configs[t].enabled)
            => /\ t \in DOMAIN last_circuit_break
               /\ calls[e][t].start_time - last_circuit_break[t] < circuit_breaker_reset_time

\* a tripped adapter, its success rate still at or below 0.3, is called exactly
\* 60 seconds after the trip
C6_Witness ==
    \E e \in Execs : \E t \in Tools :
        /\ calls[e][t].state = "in_flight"
        /\ t \in DOMAIN last_circuit_break
        /\ AtOrBelowThreshold(tool_stats[t])
        /\ calls[e][t].start_time - last_circuit_break[t] = circuit_breaker_reset_time

-----------------------------------------------------------------------------
(* Claims about execute_research *)

\* the status of a plan before this step; a plan made in this step starts as initiated
StatusBefore(id) ==
    IF id \in DOMAIN active_plans THEN active_plans[id].status ELSE "initiated"

\* C7: a plan's status only moves initiated -> in_progress ->
\* completed or -> error, and a plan that reached completed or error never
\* changes status again, whatever execute_research calls follow.
C7_TerminalStatus ==
    [][\A id \in DOMAIN active_plans' :
          LET old == StatusBefore(id)
              new == active_plans'[id].status
          IN /\ old \in {"completed", "error"} => new = old
             /\ old = "initiated" => new \in {"initiated", "in_progress"}
             /\ old = "in_progress" => new \in {"in_progress", "completed", "error"}]_vars

\* C8: every plan that is in_progress or completed has at most
\* max_iterations steps, and a response's iterations_completed is the number
\* of steps of its plan.
C8_StepsWithinCap ==
    /\ \A id \in DOMAIN active_plans :
          active_plans[id].status \in {"in_progress", "completed"}
              => Len(active_plans[id].steps) <= max_iterations
    /\ \A r \in Researches :
          rpc[r] = "done"
              => r_response[r].iterations_completed = Len(active_plans[r_plan[r]].steps)

\* the analysis answered that the information is sufficient
Signalled(an) == "information_sufficient" \in DOMAIN an /\ an.information_sufficient = TRUE

\* the call planned its first step itself: the plan had no step when it began
NewPlan(r) == initial_plan[r] # NoDict

\* C9: a new plan completes with exactly 1 step when the first
\* analysis signals sufficiency, and with exactly max_iterations steps when
\* no analysis of the call signals sufficiency.
C9_LoopTermination ==
    \A r \in Researches :
       (rpc[r] = "done" /\ r_response[r].status = "completed" /\ NewPlan(r)) =>
          /\ (analysis_calls[r] = 1 /\ Signalled(analysis[r]))
                 => Len(active_plans[r_plan[r]].steps) = 1
          /\ ~Signalled(analysis[r])
                 => Len(active_plans[r_plan[r]].steps) = max_iterations

\* C10: when an analysis call returns information_sufficient = true, the
\* loop is left in that step: the call waits for the synthesis next, and
\* from then on it dispatches no search and appends no step, also when the
\* plan has fewer than max_iterations steps.
C10_SufficientExitsLoop ==
    [][\A r \in Researches :
          LET steps == active_plans[r_plan[r]].steps
              quiet == /\ active_plans'[r_plan[r]].steps = steps
                       /\ pc' = pc /\ calls' = calls
          IN /\ (rpc[r] = "analyzing" /\ rpc'[r] # "analyzing" /\ Signalled(analysis'[r]))
                    => rpc'[r] = "synthesizing" /\ quiet
             /\ (Signalled(analysis[r]) /\ rpc[r] = "synthesizing")
                    => rpc'[r] \in {"synthesizing", "relating", "done"} /\ quiet
             /\ (Signalled(analysis[r]) /\ rpc[r] = "relating")
                    => rpc'[r] \in {"relating", "done"} /\ quiet]_vars

\* the loop was left on the model's word with steps to spare
C10_Witness ==
    \E r \in Researches :
       /\ rpc[r] = "synthesizing"
       /\ Signalled(analysis[r])
       /\ Len(active_plans[r_plan[r]].steps) < max_iterations
       /\ Len(active_plans[r_plan[r]].steps) >= 1

\* C11: execute_research terminates when every awaited call returns, and in
\* one call neither the analysis calls nor the appended steps outnumber
\* max_iterations, whatever the language model answers.
C11_BoundedTermination ==
    /\ [](\A r \in Researches : /\ analysis_calls[r] <= max_iterations
                                /\ steps_appended[r] <= max_iterations)
    /\ \A r \in Researches : (rpc[r] \notin {"idle", "done"}) ~> (rpc[r] = "done")

\* the URLs of the sources of these steps, empty ones aside
StepUrls(steps) ==
    UNION {{steps[i].sources[j].url : j \in DOMAIN steps[i].sources} : i \in DOMAIN steps}
        \ {""}

\* no URL twice in a list of sources
DistinctUrls(sources) ==
    \A i, j \in DOMAIN sources : sources[i].url = sources[j].url => i = j

\* C12: when an exception ends an execute_research call, the call returns a
\* response instead of raising, the plan's status is error, the plan keeps
\* every step it had, and the response lists these steps and their sources,
\* each URL once.
C12_ErrorKeepsSteps ==
    [][\A r \in Researches :
          (rpc[r] \notin {"idle", "done", "relating"} /\ rpc'[r] = "done") =>
             LET id == r_plan[r]
                 before == active_plans[id].steps
                 plan == active_plans'[id]
                 resp == r_response'[r]
             IN /\ plan.status = "error" /\ resp.status = "error"
                /\ plan.steps = before
                /\ Len(resp.research_steps) = Len(before)
                /\ \A i \in DOMAIN before :
                      /\ resp.research_steps[i].query = before[i].query
                      /\ resp.research_steps[i].results_count = Len(before[i].results)
                /\ resp.iterations_completed = Len(before)
                /\ DistinctUrls(resp.sources)
                /\ {resp.sources[i].url : i \in DOMAIN resp.sources} = StepUrls(before)]_vars

\* a call ended in error after steps with sources had been gathered
C12_Witness ==
    \E r \in Researches :
       /\ rpc[r] = "done"
       /\ r_response[r].status = "error"
       /\ Len(r_response[r].research_steps) >= 2
       /\ r_response[r].sources # <<>>
       /\ active_plans[r_plan[r]].status = "error"

ResponseFields ==
    {"plan_id", "original_query", "research_steps", "synthesis", "status",
     "iterations_completed", "max_iterations", "sources", "related_searches"}

IsList(v) == DOMAIN v = 1..Len(v)

\* C13: every value execute_research returns, completed or error, has all
\* nine fields of the response, and research_steps, sources and
\* related_searches are lists, empty when nothing was gathered.
C13_FullShape ==
    \A r \in Researches :
       rpc[r] = "done" =>
          /\ ResponseFields \subseteq DOMAIN r_response[r]
          /\ IsList(r_response[r].research_steps)
          /\ IsList(r_response[r].sources)
          /\ IsList(r_response[r].related_searches)
          /\ r_response[r].status \in {"completed", "error"}

\* an error response with nothing gathered
C13_Witness ==
    \E r \in Researches :
       /\ rpc[r] = "done"
       /\ r_response[r].status = "error"
       /\ r_response[r].research_steps = <<>>
       /\ r_response[r].sources = <<>>
       /\ r_response[r].related_searches = <<>>

-----------------------------------------------------------------------------
(* Claims about the semaphore and the order of the urgent calls *)

InFlight == {c \in (DOMAIN pc) \X Tools : calls[c[1]][c[2]].state = "in_flight"}

WaitingCalls == {c \in (DOMAIN pc) \X Tools : calls[c[1]][c[2]].state = "waiting"}

\* C14: at every moment at most 10 adapter calls are in flight on the
\* executor, counted over the urgent and the deferred calls of all the
\* execute_prioritized_search calls running on it; the permits left are the
\* ten minus the calls in flight.
C14_AtMostTenInFlight ==
    /\ Cardinality(InFlight) <= SemaphorePermits
    /\ semaphore = SemaphorePermits - Cardinality(InFlight)

\* ten calls of three searches are in flight, two more wait for a permit, and
\* every search has got past its urgent call
C14_Witness ==
    /\ Cardinality(InFlight) = SemaphorePermits
    /\ Cardinality(WaitingCalls) = 2
    /\ Cardinality({c[1] : c \in InFlight}) = 3
    /\ \A e \in DOMAIN pc : \E t \in Tools : IsUrgent(t) /\ calls[e][t].state = "done"


\* u comes before t: a more urgent tier, or the same tier and registered earlier
Before(u, t) ==
    \/ tool_configs[u].priority < tool_configs[t].priority
    \/ tool_configs[u].priority = tool_configs[t].priority /\ u < t

Started(c) == c.state \in {"waiting", "in_flight", "done"}

Over(c) == c.state \in {"done", "skipped"}

\* C15: within one execute_prioritized_search call an urgent adapter is
\* invoked only when every urgent adapter before it (CRITICAL before HIGH,
\* registration order within a tier) has finished (returned, failed or
\* timed out) or was skipped, and not before the previous call's end; so at
\* most one urgent call is in flight.
C15_UrgentInOrder ==
    \A e \in Execs :
       /\ \A t \in Tools :
             IsUrgent(t) /\ Started(calls[e][t]) =>
                \A u \in Tools :
                   IsUrgent(u) /\ Before(u, t) =>
                      /\ Over(calls[e][u])
                      /\ calls[e][u].state = "done" =>
                            last_call_end[u] <= calls[e][t].start_time
       /\ Cardinality({t \in Tools : IsUrgent(t)
                          /\ calls[e][t].state \in {"waiting", "in_flight"}}) <= 1

\* the last urgent adapter in order (HIGH, registered fourth) is being called
\* after the three before it returned, failed and timed out
C15_Witness ==
    \E e \in Execs :
       /\ Len(tool_configs) = 5
       /\ calls[e][4].state = "in_flight"
       /\ calls[e][3].kind = "exception"
       /\ calls[e][5].kind = "return"
       /\ calls[e][1].kind = "timeout"
       /\ last_call_end[3] < last_call_end[5]
       /\ last_call_end[5] < last_call_end[1]


-----------------------------------------------------------------------------
(* Claims about the merge of the deferred results and the returned sources *)

IsDeferred(t) == ~IsUrgent(t)

UrlsOf(c) == {UrlOf(c.results[i]) : i \in DOMAIN c.results} \ {""}

\* C16: when two deferred adapters of one call both return an item with the
\* same URL (and no urgent adapter returned it), the item kept in the result
\* is the one of the adapter whose call finished first.
C16_FirstFinishedKept ==
    \A e \in Execs :
       pc[e] = "returned" =>
          \A t, u \in Tools :
             /\ IsDeferred(t) /\ IsDeferred(u)
             /\ calls[e][t].success /\ calls[e][u].success
             /\ last_call_end[t] < last_call_end[u]
             => \A x \in UrlsOf(calls[e][t]) \cap UrlsOf(calls[e][u]) :
                   (\A h \in Tools : IsUrgent(h) => x \notin UrlsOf(calls[e][h]))
                   => \A i \in DOMAIN response[e].results :
                         UrlOf(response[e].results[i]) = x
                            => response[e].results[i].source = t


Contributed(e, t) == calls[e][t].success /\ calls[e][t].results # <<>>

\* C17: the sources returned by execute_prioritized_search are exactly the
\* adapters that contributed at least one result item in that call; an adapter
\* whose call succeeded with zero items is not listed.
C17_SourcesContributed ==
    \A e \in Execs :
       pc[e] = "returned" /\ Len(tool_configs) > 0 =>
          Range(response[e].sources) = {t \in Tools : Contributed(e, t)}


-----------------------------------------------------------------------------
(* Claims about skipped calls *)

\* the adapter's circuit is open at the current time
OpenNow(t) ==
    /\ ~FracGT(tool_stats[t].success_rate, circuit_breaker_threshold)
    /\ now - (IF t \in DOMAIN last_circuit_break THEN last_circuit_break[t] ELSE 0)
          < circuit_breaker_reset_time

Active(c) == c.state \in {"waiting", "in_flight"}

-----------------------------------------------------------------------------
(* Claims about the aggregate sources and the plan table *)

\* the places (step, position) where url x occurs in the steps' sources
Occurrences(steps, x) ==
    UNION {{<<s, j>> : j \in {k \in DOMAIN steps[s].sources : steps[s].sources[k].url = x}}
              : s \in DOMAIN steps}

Precedes(p, q) == p[1] < q[1] \/ (p[1] = q[1] /\ p[2] <= q[2])

FirstOccurrence(steps, x) ==
    CHOOSE p \in Occurrences(steps, x) : \A q \in Occurrences(steps, x) : Precedes(p, q)

FirstKept(steps, sources) ==
    /\ DistinctUrls(sources)
    /\ {sources[i].url : i \in DOMAIN sources} = StepUrls(steps)
    /\ \A i \in DOMAIN sources :
          LET p == FirstOccurrence(steps, sources[i].url)
          IN sources[i] = steps[p[1]].sources[p[2]]
    /\ \A i, j \in DOMAIN sources :
          i < j => Precedes(FirstOccurrence(steps, sources[i].url),
                            FirstOccurrence(steps, sources[j].url))

\* C19: whatever steps were appended to a plan, its aggregate source list
\* (get_all_sources, returned as sources by execute_research) holds every
\* URL of the steps' sources once, the entry being the first occurrence in
\* step order.
C19_SourcesUniqueFirst ==
    /\ \A id \in DOMAIN active_plans :
          FirstKept(active_plans[id].steps, get_all_sources(active_plans[id]))
    /\ \A r \in Researches :
          rpc[r] = "done" =>
             FirstKept(active_plans[r_plan[r]].steps, r_response[r].sources)

\* a returned plan in which u1 occurs in two steps under different titles and
\* a source without URL was recorded; the response lists u1 once, as in step 1
C19_Witness ==
    \E r \in Researches :
       /\ rpc[r] = "done"
       /\ LET steps == active_plans[r_plan[r]].steps
              src == r_response[r].sources
          IN /\ Len(steps) >= 2
             /\ \E j \in DOMAIN steps[1].sources, k \in DOMAIN steps[2].sources :
                   /\ steps[1].sources[j].url = "u1"
                   /\ steps[2].sources[k].url = "u1"
                   /\ steps[1].sources[j].title # steps[2].sources[k].title
                   /\ \E i \in DOMAIN src : src[i] = steps[1].sources[j]
             /\ \E s \in DOMAIN steps : \E j \in DOMAIN steps[s].sources :
                   steps[s].sources[j].url = ""
             /\ Len(src) = 2


\* C20: get_research_plan with an id that is not in the plan table returns
\* None, with a known id the snapshot of that plan, in both cases without
\* changing the table; and no step removes a plan from the table or changes
\* the query it was created for.
C20_LookupNotFound ==
    [][/\ lookup' # lookup =>
            /\ active_plans' = active_plans
            /\ LET id == lookup'.plan_id
                   value == lookup'.value
               IN IF id \in DOMAIN active_plans
                  THEN /\ value # None
                       /\ "raised" \notin DOMAIN value
                       /\ value.id = id
                       /\ value.original_query = active_plans[id].original_query
                       /\ value.status = active_plans[id].status
                       /\ value.synthesis = active_plans[id].synthesis
                       /\ Len(value.steps) = Len(active_plans[id].steps)
                       /\ \A i \in DOMAIN value.steps :
                             value.steps[i].query = active_plans[id].steps[i].query
                       /\ FirstKept(active_plans[id].steps, value.sources)
                  ELSE value = None
      /\ DOMAIN active_plans \subseteq DOMAIN active_plans'
      /\ \A id \in DOMAIN active_plans :
            active_plans'[id].original_query = active_plans[id].original_query]_vars

\* a look-up of an id no plan has answered None while the table holds a plan
\* whose research is under way
C20_Witness ==
    /\ lookup.plan_id \notin DOMAIN active_plans
    /\ lookup.plan_id # NoPlanId
    /\ lookup.value = None
    /\ \E id \in DOMAIN active_plans :
          active_plans[id].status = "in_progress" /\ active_plans[id].steps # <<>>


-----------------------------------------------------------------------------
(* Claims about the answers of the language model *)

\* the planning answer is not JSON, or is JSON without any initial query
NoPlannedQuery(a) ==
    \/ a.kind = "text"
    \/ /\ a.kind = "json"
       /\ "initial_queries" \in DOMAIN a.value => a.value.initial_queries = <<>>

C22_AnalysisFallbackQuery ==
    [][\A r \in Researches :
          rpc[r] = "analyzing" /\ llm_answer'[r].kind = "text" =>
             LET buffer == active_plans[r_plan[r]].planned_queries
             IN /\ rpc'[r] = "next_search" \/ Len(active_plans'[r_plan[r]].steps)
                                                > Len(active_plans[r_plan[r]].steps)
                /\ r_step'[r].query = IF buffer # <<>> THEN Head(buffer).query
                                      ELSE r_query[r] \o " additional details"]_vars


\* C23: no text the language model returns at the planning, analysis or
\* related-query call, unparseable or of an unexpected shape, makes
\* execute_research end with status error.
C23_NoParseError ==
    [][\A r \in Researches :
          /\ rpc[r] \in {"planning", "analyzing", "relating"}
          /\ llm_answer'[r].kind # "raise"
          => /\ r_response'[r].status # "error"
             /\ active_plans'[r_plan[r]].status # "error"]_vars


\* C24: when the answer to the related-query call is not a JSON array of
\* strings (an empty response, only brackets and comments, prose, JSON of
\* another type), the related_searches of the response is a non-empty list.
C24_RelatedNonEmpty ==
    [][\A r \in Researches :
          rpc[r] = "relating" /\ rpc'[r] = "done" /\ llm_answer'[r].kind # "json" =>
             r_response'[r].related_searches # <<>>]_vars


-----------------------------------------------------------------------------
(* Claims about the analysis parser *)

\* JSON (no prose, no fence) with a comma right before a closer and more
\* closing than opening square brackets
TrailingCommaExtraBracket(content) ==
    /\ \A i \in DOMAIN content : content[i] \in JsonTokens
    /\ \E i \in DOMAIN content :
          content[i] = "," /\ i < Len(content) /\ content[i + 1] \in {"}", "]"}
    /\ Count(content, "]") > Count(content, "[")

PureProse(content) == content # <<>> /\ \A i \in DOMAIN content : content[i] = "w"

ValidNextQueries(an) ==
    /\ "next_queries" \in DOMAIN an
    /\ an.next_queries # <<>>
    /\ \A i \in DOMAIN an.next_queries :
          {"query", "reasoning"} \subseteq DOMAIN an.next_queries[i]

\* C25: for an answer that is malformed JSON with a trailing comma and an
\* extra unmatched ']', and for an answer that is pure prose, the analysis
\* parser returns a structure with a non-empty next_queries whose entries
\* each have a query and a reasoning.
C25_ParserFallbackValid ==
    \A r \in Researches :
       /\ rpc[r] = "analyzed"
       /\ \/ TrailingCommaExtraBracket(llm_answer[r].tokens)
          \/ PureProse(llm_answer[r].tokens)
       => /\ ValidNextQueries(analysis[r])
          /\ "information_sufficient" \in DOMAIN analysis[r]

\* the parser returned for the answer { k [ s , ] ] } (an object whose array
\* has a trailing comma and is closed twice)
C25_Witness ==
    \E r \in Researches :
       /\ rpc[r] = "analyzed"
       /\ llm_answer[r].tokens = <<"{", "k", "[", "s", ",", "]", "]", "}">>
       /\ Cleaned(llm_answer[r].tokens) = <<"{", "k", "[", "s", "]", "]", "}">>
       /\ ValidNextQueries(analysis[r])
       /\ analysis[r].next_queries[1].query = "q 2th perspective"


\* the synthesis call of research r is under way
SynthesisCalled(r) ==
    /\ rpc[r] = "synthesizing"
    /\ llm_sites[r] # <<>>
    /\ llm_sites[r][Len(llm_sites[r])] = "synthesis"

\* the results of all steps of the plan of r, limited to what
\* _synthesize_research reads
ReadResults(r) ==
    LET all == StepResults(active_plans[r_plan[r]].steps, 1)
    IN  SubSeq(all, 1, IF Len(all) > MaxSynthesisResults THEN MaxSynthesisResults ELSE Len(all))

\* the url under which a result counts
CountedUrl(result) == IF result.url = Missing THEN "No URL" ELSE result.url

\* the position of the first result with this url
FirstSeen(results, url) ==
    CHOOSE p \in DOMAIN results :
        /\ CountedUrl(results[p]) = url
        /\ \A o \in 1..(p - 1) : CountedUrl(results[o]) # url

\* C26: the source list handed to the synthesis call carries the indices
\* 1..k in order, no url under two indices, every entry being the first
\* result of the plan's steps with its url and the entries standing in the
\* order in which their urls were first seen; every url read is listed, so k
\* is the number of distinct urls and never more than the sources passed.
C26_SynthesisSourcesIndexed ==
    \A r \in Researches :
       SynthesisCalled(r) =>
          LET listed == llm_input[r].unique_sources
              read == ReadResults(r)
          IN  /\ \A i \in DOMAIN listed : listed[i].index = i
              /\ \A i, j \in DOMAIN listed : listed[i].url = listed[j].url => i = j
              /\ \A i \in DOMAIN listed :
                    /\ \E p \in DOMAIN read : CountedUrl(read[p]) = listed[i].url
                    /\ listed[i].title = read[FirstSeen(read, listed[i].url)].title
              /\ \A i, j \in DOMAIN listed :
                    i < j => FirstSeen(read, listed[i].url) < FirstSeen(read, listed[j].url)
              /\ {listed[i].url : i \in DOMAIN listed} = {CountedUrl(read[p]) : p \in DOMAIN read}
              /\ Len(listed) = Cardinality({CountedUrl(read[p]) : p \in DOMAIN read})
              /\ Len(listed) <= Len(read)

\* a synthesis call over two steps: the url u1 of the first step comes back in
\* the second step under another title and is listed once, under the index
\* and the title of its first result
C26_Witness ==
    \E r \in Researches :
       /\ SynthesisCalled(r)
       /\ Len(active_plans[r_plan[r]].steps) = 2
       /\ Len(llm_input[r].unique_sources) = 3
       /\ Len(ReadResults(r)) > 3
       /\ llm_input[r].unique_sources[2] = [index |-> 2, title |-> "b", url |-> "u1"]
       /\ \E p \in DOMAIN active_plans[r_plan[r]].steps[2].results :
             /\ active_plans[r_plan[r]].steps[2].results[p].url = "u1"
             /\ active_plans[r_plan[r]].steps[2].results[p].title = "a"


\* C27: after n >= 1 attempted calls of an adapter have ended, s of them with
\* success, its request_count is n, its success_rate is s / n and its
\* last_success is the outcome of the latest one; calls that were skipped
\* count for nothing.
C27_StatsCountAttempts ==
    \A t \in Tools :
       IF attempts[t].n >= 1
       THEN /\ tool_stats[t].request_count = attempts[t].n
            /\ tool_stats[t].success_rate.num * attempts[t].n
                  = attempts[t].s * tool_stats[t].success_rate.den
            /\ tool_stats[t].last_success = attempts[t].last
       ELSE tool_stats[t].request_count = 0

\* an adapter after three attempted calls, one of them successful and the
\* latest one failed
C27_Witness ==
    \E t \in Tools :
       /\ attempts[t] = [n |-> 3, s |-> 1, last |-> FALSE]
       /\ tool_stats[t].request_count = 3
       /\ tool_stats[t].success_rate = Frac(1, 3)
       /\ ~tool_stats[t].last_success


-----------------------------------------------------------------------------
(* Claims about the statistics and the probe after the cool-down *)

\* adapter t was tripped and no call to it has ended since
Tripped(t) ==
    /\ t \in DOMAIN last_circuit_break
    /\ last_call_end[t] = last_circuit_break[t]

\* the calls to t that are under way (awaiting the semaphore or the adapter)
\* and were started after the cool-down of its last trip
ProbesUnderWay(t) ==
    {e \in DOMAIN pc :
        /\ calls[e][t].state \in {"in_flight", "waiting"}
        /\ t \in DOMAIN last_circuit_break
        /\ calls[e][t].start_time >= last_circuit_break[t] + circuit_breaker_reset_time}

\* C28: after the cool-down of a tripped adapter, at most one call to it is
\* started before the outcome of a probe has been recorded, also when several
\* execute_prioritized_search calls run at once on the executor.
C28_OneProbe ==
    \A t \in Tools : Tripped(t) => Cardinality(ProbesUnderWay(t)) <= 1


-----------------------------------------------------------------------------
(* Claims about the end of execute_research and the pending queries *)

\* how often research r has called the language model at this site
CallsAt(r, site) == Cardinality({i \in DOMAIN llm_sites[r] : llm_sites[r][i] = site})

\* execute_research of r has returned from its try block
ReturnedCompleted(r) == rpc[r] = "done" /\ r_response[r].status = "completed"

\* C29: a run that does not error calls the language model for the synthesis
\* once, after its last planning or analysis call, and for the related queries
\* once, after the synthesis returned and with the stored synthesis text as
\* input; the plan is completed when the response is returned, and a
\* completed plan always holds its synthesis text (the synthesis answers
\* drawn here are non-empty, a new plan's synthesis is the empty string).
C29_SynthesisThenRelated ==
    \A r \in Researches :
       /\ ReturnedCompleted(r) =>
             LET n == Len(llm_sites[r]) IN
             /\ CallsAt(r, "synthesis") = 1
             /\ CallsAt(r, "related") = 1
             /\ n >= 2
             /\ llm_sites[r][n - 1] = "synthesis"
             /\ llm_sites[r][n] = "related"
             /\ llm_input[r].synthesis = active_plans[r_plan[r]].synthesis
             /\ llm_input[r].query = active_plans[r_plan[r]].original_query
             /\ r_response[r].synthesis = active_plans[r_plan[r]].synthesis
             /\ active_plans[r_plan[r]].status = "completed"
       /\ rpc[r] \in {"planning", "first_search", "analyzing", "next_search", "synthesizing"}
             => /\ active_plans[r_plan[r]].status = "in_progress"
                /\ CallsAt(r, "related") = 0
                /\ CallsAt(r, "synthesis") = IF rpc[r] = "synthesizing" THEN 1 ELSE 0
       /\ rpc[r] = "relating"
             => /\ llm_answer[r].kind = "text"
                /\ active_plans[r_plan[r]].synthesis = llm_answer[r].value
                /\ llm_input[r].synthesis = llm_answer[r].value
       /\ \A id \in DOMAIN active_plans :
             active_plans[id].status = "completed" => active_plans[id].synthesis # ""

\* a run that searched twice and analysed twice before it called for the
\* synthesis and then for the related queries, and returned completed
C29_Witness ==
    \E r \in Researches :
       /\ ReturnedCompleted(r)
       /\ llm_sites[r] = <<"planning", "analysis", "analysis", "synthesis", "related">>
       /\ llm_input[r] = [query |-> "q", synthesis |-> "report"]
       /\ active_plans[r_plan[r]].synthesis = "report"


\* the first step of a new plan was added by this step of research r, from a
\* planning answer that holds sub-queries
FirstStepAdded(r) ==
    /\ r_plan[r] \in DOMAIN active_plans
    /\ active_plans[r_plan[r]].steps = <<>>
    /\ Len(active_plans'[r_plan[r]].steps) = 1
    /\ HasInitialQueries(initial_plan'[r])

\* the pending queries of the plan of r are as they were, or the first of
\* them was taken for the step that is searched next
BufferKeptOrUsed(r) ==
    LET old == active_plans[r_plan[r]].planned_queries
        new == active_plans'[r_plan[r]].planned_queries
    IN \/ new = old
       \/ /\ old # <<>>
          /\ new = Tail(old)
          /\ r_step'[r].query = Head(old).query

\* C30: the first step of a new plan searches the first sub-query of the
\* planning answer and the others become the pending queries, in order; from
\* then on a pending query leaves the buffer only as the query of the next
\* step, so each is used at most once and stays available until it is used.
C30_BufferKeptUntilUsed ==
    [][\A r \in Researches :
          /\ FirstStepAdded(r) =>
                /\ active_plans'[r_plan[r]].steps[1].query = initial_plan'[r].initial_queries[1].query
                /\ active_plans'[r_plan[r]].planned_queries = Tail(initial_plan'[r].initial_queries)
          /\ (r_plan[r] \in DOMAIN active_plans /\ r_plan'[r] = r_plan[r]
                  /\ active_plans[r_plan[r]].steps # <<>>)
                => BufferKeptOrUsed(r)]_vars


-----------------------------------------------------------------------------
(* Claims about the two phases of execute_prioritized_search *)

DeferredTier(t) == tool_configs[t].priority \in {MEDIUM, LOW, FALLBACK}

UrgentTier(t) == tool_configs[t].priority \in {CRITICAL, HIGH}

\* the task of a registration went past the skip test
Invocation(c) == c.state \in {"waiting", "in_flight", "done"}

\* this step takes call e out of its urgent loop; ar and cs are its locals then
LeavesUrgentLoop(e) ==
    /\ \/ pc[e] = "urgent"
       \/ pc[e] \in {"idle", "returned"} /\ calls'[e] # calls[e]
    /\ pc'[e] \in {"deferred", "returned"}

\* C31: within one call no deferred adapter is invoked before every urgent
\* adapter call has finished; a registration is invoked at most once; and when
\* the urgent loop ends without the early exit, every enabled deferred
\* registration whose circuit is closed is invoked, all at that same moment,
\* and no other deferred registration is.
C31_UrgentThenDeferredTogether ==
    [][\A e \in Execs :
          /\ \A t \in Tools :
                (DeferredTier(t) /\ Invocation(calls'[e][t]))
                    => \A u \in Tools : UrgentTier(u) => calls'[e][u].state \in {"skipped", "done"}
          /\ \A t \in Tools :
                (pc[e] \notin {"idle", "returned"} /\ Invocation(calls[e][t]))
                    => /\ Invocation(calls'[e][t])
                       /\ calls'[e][t].start_time = calls[e][t].start_time
                       /\ calls[e][t].state = "done" => calls'[e][t].state = "done"
          /\ LeavesUrgentLoop(e) =>
                \A t \in Tools : DeferredTier(t) =>
                    IF /\ ~(critical_succeeded'[e] /\ Len(all_results'[e]) >= 5)
                       /\ tool_configs[t].enabled
                       /\ ~IsCircuitBroken(t, tool_stats', last_circuit_break', now)
                    THEN /\ calls'[e][t].state \in {"waiting", "in_flight"}
                         /\ calls'[e][t].start_time = now
                    ELSE ~Invocation(calls'[e][t])
          /\ (pc[e] = "deferred" /\ pc'[e] = "deferred") =>
                \A t \in Tools : Invocation(calls'[e][t]) = Invocation(calls[e][t])]_vars

\* after its two urgent adapters are done, a call has its two deferred
\* adapters in flight, started at the same moment
C31_Witness ==
    \E e \in Execs :
       /\ pc[e] = "deferred"
       /\ \E t, u \in Tools :
             /\ t # u /\ DeferredTier(t) /\ DeferredTier(u)
             /\ calls[e][t].state = "in_flight" /\ calls[e][u].state = "in_flight"
             /\ calls[e][t].start_time = calls[e][u].start_time
       /\ Cardinality({u \in Tools : UrgentTier(u) /\ calls[e][u].state = "done"}) = 2


\* what the tasks of a call contribute, read off their outcomes in the order
\* of the sorted registrations
RECURSIVE Contributions(_, _, _)
Contributions(order, k, cl) ==
    IF k > Len(order) THEN <<>>
    ELSE (IF cl[order[k]].success THEN cl[order[k]].results ELSE <<>>)
             \o Contributions(order, k + 1, cl)

Contributors(order, cl) == SelectSeq(order, LAMBDA t : cl[t].success)

\* C32: the results and the sources a call returns are a function of its
\* adapters' outcomes alone (who succeeded, with which items): the items of
\* the successful adapters in the order of the sorted registrations,
\* deduplicated, whatever the order in which the deferred calls ended.
C32_MergeDeterminedByOutcomes ==
    \A e \in Execs :
       (pc[e] = "returned" /\ Len(tool_configs) > 0)
           => /\ response[e].results = Deduplicate(Contributions(sorted_configs, 1, calls[e]))
              /\ response[e].sources = Contributors(sorted_configs, calls[e])

\* a call returned after two deferred adapters succeeded with items, the one
\* later in task order having ended first, its items merged second
C32_Witness ==
    \E e \in Execs : \E t, u \in Tools :
       /\ pc[e] = "returned"
       /\ DeferredTier(t) /\ DeferredTier(u) /\ t < u
       /\ tool_configs[t].priority = tool_configs[u].priority
       /\ calls[e][t].success /\ calls[e][u].success
       /\ calls[e][t].results # <<>> /\ calls[e][u].results # <<>>
       /\ last_call_end[u] < last_call_end[t]
       /\ response[e].sources = <<1, t, u>>
       /\ response[e].results[Len(calls[e][1].results) + 1] = calls[e][t].results[1]


-----------------------------------------------------------------------------
(* Claims about calls that run at once on one executor *)

\* the calls to adapter t, over all execute_prioritized_search calls under
\* way or returned, that have ended
EndedCalls(t) == {e \in DOMAIN pc : calls[e][t].state = "done"}

\* C33: with several execute_prioritized_search calls running at once no
\* statistics update is lost: an adapter's request_count is the number of
\* attempted calls to it that ended, over all those calls, and its
\* success_rate is the number of successful ones divided by it.
C33_NoLostUpdate ==
    \A t \in Tools :
       /\ tool_stats[t].request_count = attempts[t].n
       /\ attempts[t].n >= 1 =>
             tool_stats[t].success_rate = Frac(attempts[t].s, attempts[t].n)
       /\ Cardinality(EndedCalls(t)) <= tool_stats[t].request_count
       /\ (attempts[t].n = Cardinality(EndedCalls(t)) /\ attempts[t].n >= 1) =>
             tool_stats[t].success_rate
                 = Frac(Cardinality({e \in EndedCalls(t) : calls[e][t].success}),
                        Cardinality(EndedCalls(t)))

\* two calls to one adapter that were in flight at the same time have both
\* ended, one with success and one without
C33_Witness ==
    \E t \in Tools : \E e, x \in DOMAIN pc :
       /\ e # x
       /\ calls[e][t].state = "done" /\ calls[x][t].state = "done"
       /\ calls[e][t].start_time = calls[x][t].start_time
       /\ calls[e][t].success /\ ~calls[x][t].success
       /\ attempts[t].n = 2
       /\ tool_stats[t].request_count = 2
       /\ tool_stats[t].success_rate = Frac(1, 2)


-----------------------------------------------------------------------------
(* Claims about requests that overlap on the shared engine *)

\* both execute_research calls were made for plan id
BothOn(id) == \A r \in OverlapResearches : r_plan[r] = id

\* C34: when two execute_research calls for the same plan overlap, the plan
\* never holds more steps than max_iterations; no request comes with a
\* max_iterations above OverlapIterations, so the plan never holds more steps
\* than that.
C34_OverlapKeepsCap ==
    \A id \in DOMAIN active_plans :
       BothOn(id) => Len(active_plans[id].steps) <= OverlapIterations


\* C35: the cap of a run is the max_iterations its own request came with:
\* the run never appends more steps than that, and its response reports it,
\* also when another request with another max_iterations overlaps.
C35_OwnCap ==
    \A r \in OverlapResearches :
       /\ steps_appended[r] <= r_max_iterations[r]
       /\ rpc[r] = "done" => r_response[r].max_iterations = r_max_iterations[r]


PermitCalls == PermitExecs \X (1..PermitAdapters)

\* C36: the permits never leak.  Every adapter call gives its permit back
\* however it ends (answer, exception, timeout): whenever no adapter call is
\* in flight all 10 permits are free; and a call that waits for a permit is
\* admitted once holders answer or time out (a call never goes back to
\* waiting, so the waiting calls running out is every one of them admitted).
C36_PermitsNeverLeak ==
    /\ [](InFlight = {} => semaphore = SemaphorePermits)
    /\ (WaitingCalls # {}) ~> (WaitingCalls = {})

\* the search has returned and no call is in flight, after calls that ended
\* by an answer, by an exception and by the timeout, and after the last
\* adapter, which found no permit free when the tasks were started, was
\* admitted and answered
C36_Witness ==
    /\ \A e \in PermitExecs : pc[e] = "returned"
    /\ InFlight = {}
    /\ \A kind \in Outcomes : \E c \in PermitCalls : calls[c[1]][c[2]].kind = kind
    /\ \A e \in PermitExecs : calls[e][PermitAdapters].state = "done"


-----------------------------------------------------------------------------
(* Claims about the start and the end of a cool-down *)

\* an attempted call to adapter t ends in this step
CallEnded(t) == attempts'[t].n = attempts[t].n + 1

\* the success rate of t over the calls it was awaited for is below 0.3
RateBelowThreshold(rec) == 10 * rec.s < 3 * rec.n

\* t is skipped at every second of the reset time that starts now
CoolingDownFromNow(t) ==
    /\ t \in DOMAIN last_circuit_break
    /\ last_circuit_break[t] = now
    /\ \A d \in 0..(circuit_breaker_reset_time - 1) :
          Skipped(t, tool_stats, last_circuit_break, now + d)

SameBreak(t) ==
    /\ (t \in DOMAIN last_circuit_break') = (t \in DOMAIN last_circuit_break)
    /\ t \in DOMAIN last_circuit_break => last_circuit_break'[t] = last_circuit_break[t]

\* C37: an attempted call that fails and leaves the adapter's success rate
\* strictly below 0.3 starts a full 60-second cool-down at the time of that
\* failure, whether it is the adapter's first call or a probe after an earlier
\* cool-down; a call that succeeds leaves the time of the last trip as it was.
C37_FailureStartsCoolDown ==
    [][\A t \in Tools :
          CallEnded(t) =>
             /\ ~attempts'[t].last /\ RateBelowThreshold(attempts'[t]) => CoolingDownFromNow(t)'
             /\ attempts'[t].last => SameBreak(t)]_vars

\* an adapter failed its first call and, after the cool-down of that trip, the
\* probe too: the second failure has started a new cool-down, while another
\* adapter has answered and was never tripped
C37_Witness ==
    \E t, u \in Tools :
       /\ attempts[t] = [n |-> 2, s |-> 0, last |-> FALSE]
       /\ CoolingDownFromNow(t)
       /\ now >= StartTime + circuit_breaker_reset_time
       /\ attempts[u].n > 0 /\ attempts[u].last
       /\ u \notin DOMAIN last_circuit_break


\* C38: a tripped adapter recovers.  It is skipped only within the 60 seconds
\* after its last trip, so when the calls after a trip succeed it is never
\* skipped once that window has elapsed, also while its cumulative success
\* rate is still at or below 0.3; and with its later calls succeeding its
\* success rate eventually rises above 0.3.
C38_TrippedAdapterRecovers ==
    /\ [](\A e \in Execs, t \in Tools :
             calls[e][t].state = "skipped" =>
                /\ t \in DOMAIN last_circuit_break
                /\ calls[e][t].start_time < last_circuit_break[t] + circuit_breaker_reset_time)
    /\ (\E t \in Tools : t \in DOMAIN last_circuit_break)
          ~> (\A t \in Tools : FracGT(tool_stats[t].success_rate, circuit_breaker_threshold))

\* after three failures and the cool-down of the last one the probe succeeded
\* (success rate 1/4), and the next call is awaited, not skipped
C38_Witness ==
    \E e \in Execs, t \in Tools :
       /\ attempts[t] = [n |-> 4, s |-> 1, last |-> TRUE]
       /\ ~FracGT(tool_stats[t].success_rate, circuit_breaker_threshold)
       /\ calls[e][t].state = "in_flight"
       /\ calls[e][t].start_time >= last_circuit_break[t] + circuit_breaker_reset_time


-----------------------------------------------------------------------------
(* Claims about the citations and the sources of the response *)

\* C39: for every completed plan the numbering of the sources offered to the
\* synthesis call agrees with the sources of the response: both lists have
\* the same length and index n of the one names the url of the n-th entry of
\* the other.
C39_CitationsMatchSources ==
    \A r \in Researches :
       ReturnedCompleted(r) =>
          LET offered == unique_sources(active_plans[r_response[r].plan_id])
              sources == r_response[r].sources
          IN  /\ Len(offered) = Len(sources)
              /\ \A n \in DOMAIN offered :
                    n \in DOMAIN sources => offered[n].url = sources[n].url


-----------------------------------------------------------------------------
(* Claims about adapters that never return *)

\* the urgent adapter tried after t in the same call, if any
NextTried(e, t) ==
    {u \in Tools : /\ IsUrgent(u) /\ Before(t, u) /\ calls[e][u].state \notin {"none", "skipped"}
                   /\ \A v \in Tools : IsUrgent(v) /\ Before(t, v) /\ Before(v, u)
                                         => calls[e][v].state \in {"none", "skipped"}}

\* the url of every item a successful task returned is among the results
Delivered(e, t) ==
    \A i \in DOMAIN calls[e][t].results :
       \E j \in DOMAIN response[e].results :
          UrlOf(response[e].results[j]) = UrlOf(calls[e][t].results[i])

\* C40: every execute_prioritized_search call returns when the timeout of
\* each adapter call fires, whether the adapters answer or hang.  An urgent
\* adapter that hangs holds the call up for its own timeout at most: the
\* next urgent adapter is tried no later than that.  A deferred adapter that
\* hangs does not keep the others' results out of what the call returns.
C40_ReturnsDespiteHangs ==
    /\ (\E e \in Execs : pc[e] \in {"urgent", "deferred"}) ~> (\A e \in Execs : pc[e] = "returned")
    /\ [](\A e \in Execs, t \in Tools :
             IsUrgent(t) /\ calls[e][t].state = "done" =>
                \A u \in NextTried(e, t) :
                   calls[e][u].start_time <= calls[e][t].start_time + tool_configs[t].timeout)
    /\ [](\A e \in Execs :
             pc[e] = "returned" =>
                \A t \in Tools : calls[e][t].success =>
                   /\ Delivered(e, t)
                   /\ \E k \in DOMAIN response[e].sources : response[e].sources[k] = t)

\* a search has returned although its urgent adapter and one deferred adapter
\* hung until their timeouts: the other deferred adapter's result is returned
C40_Witness ==
    \E e \in Execs, t, u, v \in Tools :
       /\ pc[e] = "returned"
       /\ IsUrgent(t) /\ calls[e][t].kind = "timeout"
       /\ ~IsUrgent(u) /\ calls[e][u].kind = "timeout"
       /\ ~IsUrgent(v) /\ calls[e][v].success
       /\ Len(response[e].results) = 1
       /\ response[e].sources = << v >>

====
